---------------------------- MODULE Spec2Model ----------------------------
(***************************************************************************)
(* Model of client9/cmdconfig (parser.go): the Scanner (Next and its       *)
(* sub-parsers, NewScanner and NewFromScanner), dedent, and the formatter  *)
(* (Format / FormatIndent).                                                *)
(*                                                                         *)
(* A Go string / []byte is a sequence of byte values (0..255).  Go slices  *)
(* are 0-based and half open, TLA+ sequences are 1-based: Slice(x, i, j)   *)
(* is Go's x[i:j] and At(x, i) is Go's x[i].                               *)
(***************************************************************************)
EXTENDS Integers, Sequences, FiniteSets, TLC

VARIABLES
    in,          \* Scanner.s          the input buffer
    pos,         \* Scanner.pos        0-based cursor
    line,        \* Scanner.line
    column,      \* Scanner.column
    baseOffset,  \* Scanner.baseOffset
    pc,          \* where the caller is: "fmt", "idle", "loop"; "fn", "formatted",
                 \* "dedent1", "dedent2" where a function is applied alone
    args,        \* Next's local args
    ret,         \* what the last Next returned: args, body, err, the Pos of
                 \* a ScanError (epos), and the case of the switch that
                 \* returned (kind) with its position (at)
    startPos,    \* cursor at the moment of the last call of Next
    iter,        \* iterations of Next's for loop in the current call
    spin,        \* iterations of the current call that matched no case
    hist,        \* every value returned by Next so far, in order
    eofs,        \* number of io.EOF returns so far
    fArgs,       \* formatter input: the argument list
    fBody,       \* formatter input: the body; the input of dedent
    fIndent,     \* formatter input: the indent
    fOut,        \* what FormatIndent or dedent returned
    parent       \* the scanner a re-rooted scanner was made from, and the
                 \* place of its body's opening brace (at)

vars == <<in, pos, line, column, baseOffset, pc, args, ret, startPos, iter,
          spin, hist, eofs, fArgs, fBody, fIndent, fOut, parent>>

----------------------------------------------------------------------------
(* Bytes the code names                                                    *)
TAB  == 9
NL   == 10
CR   == 13
SP   == 32
Q2   == 34
Q1   == 39
BS   == 92
BQ   == 96
LB   == 123
RB   == 125
Ch_n == 110
Ch_r == 114
Ch_t == 116
Ch_x == 120

(* Bounds                                                                  *)
MaxLen   == 4    \* longest input drawn exhaustively from Alphabet
MaxSpin  == 2    \* no-progress iterations of Next's loop that are followed
MaxEofs  == 2    \* calls of Next that are followed after end of input
MaxArgs  == 2    \* longest argument list given to Format
MaxBodyLen == 2  \* longest body drawn exhaustively from BodyAlphabet
MaxNest  == 1    \* how many times a scanner is re-rooted on a body
MaxDedentLen == 6  \* longest input of dedent drawn exhaustively from DedentAlphabet

----------------------------------------------------------------------------
(* Go slices and strings                                                   *)
At(x, i) == x[i + 1]
Slice(x, i, j) == SubSeq(x, i + 1, j)
SliceFrom(x, i) == SubSeq(x, i + 1, Len(x))

(* string(b) for a byte b, parser.go:260 and 290: the UTF-8 encoding of    *)
(* the code point b, one byte below 0x80 and two bytes from 0x80 on        *)
byteToString(b) ==
    IF b < 128 THEN <<b>> ELSE <<192 + (b \div 64), 128 + (b % 64)>>

(* utf8.DecodeRuneInString on a non-empty string, as strings.TrimSpace,    *)
(* range over a string and strconv.Quote use it: the rune, its width, and  *)
(* whether the bytes are a valid encoding (otherwise RuneError, width 1)   *)
isCont(x, k) == Len(x) >= k /\ x[k] >= 128 /\ x[k] <= 191

DecodeRune(x) ==
    LET b0  == x[1]
        bad == [r |-> 65533, w |-> 1, ok |-> FALSE]
    IN  IF b0 < 128 THEN [r |-> b0, w |-> 1, ok |-> TRUE]
        ELSE IF b0 >= 194 /\ b0 <= 223
        THEN IF isCont(x, 2)
             THEN [r |-> (b0 % 32) * 64 + (x[2] % 64), w |-> 2, ok |-> TRUE]
             ELSE bad
        ELSE IF b0 >= 224 /\ b0 <= 239
        THEN IF /\ isCont(x, 2) /\ isCont(x, 3)
                /\ (b0 = 224 => x[2] >= 160)
                /\ (b0 = 237 => x[2] <= 159)
             THEN [r |-> (b0 % 16) * 4096 + (x[2] % 64) * 64 + (x[3] % 64),
                   w |-> 3, ok |-> TRUE]
             ELSE bad
        ELSE IF b0 >= 240 /\ b0 <= 244
        THEN IF /\ isCont(x, 2) /\ isCont(x, 3) /\ isCont(x, 4)
                /\ (b0 = 240 => x[2] >= 144)
                /\ (b0 = 244 => x[2] <= 143)
             THEN [r |-> (b0 % 8) * 262144 + (x[2] % 64) * 4096
                         + (x[3] % 64) * 64 + (x[4] % 64),
                   w |-> 4, ok |-> TRUE]
             ELSE bad
        ELSE bad

RECURSIVE SeqsUpTo(_, _)
SeqsUpTo(S, n) ==
    IF n = 0 THEN {<<>>}
    ELSE LET shorter == SeqsUpTo(S, n - 1)
         IN  shorter \cup {Append(x, b) : x \in {y \in shorter : Len(y) = n - 1}, b \in S}

(* error values *)
NoErr       == "nil"
ErrEOF      == "EOF"                        \* io.EOF
ErrQuote1   == "got EOF in single quote"
ErrQuote2   == "got EOF in double quote"
ErrBack     == "got EOF in back quote"
ErrBrace    == "got EOF in opening brace"
ErrSlash    == "got EOF after backslash"

(* whether an error value is a *ScanError; the other values are nil and io.EOF *)
isScanError(e) == e \notin {NoErr, ErrEOF}

----------------------------------------------------------------------------
(* Byte classes, parser.go:11-37                                           *)
isQuote1(b)    == b = Q1
isQuote2(b)    == b = Q2
isSpace(b)     == b = SP \/ b = TAB
isLeftBrace(b) == b = LB
isNewLine(b)   == b = NL
isBackQuote(b) == b = BQ

isBareword(b) ==
    IF b < 32 THEN FALSE
    ELSE IF isSpace(b) THEN FALSE
    ELSE IF isQuote1(b) THEN FALSE
    ELSE IF isQuote2(b) THEN FALSE
    ELSE IF isLeftBrace(b) THEN FALSE
    ELSE IF isBackQuote(b) THEN FALSE
    ELSE TRUE

----------------------------------------------------------------------------
(* The cursor: the mutable fields of a Scanner, [pos, line, column].       *)
Cursor(p, l, c) == [pos |-> p, line |-> l, column |-> c]

(* advance that counts no lines *)
advance_NoLines(x, c) ==
    [pos |-> c.pos + 1, line |-> c.line, column |-> c.column + 1]

(* Scanner.advance, parser.go:103-111 *)
advance(x, c) ==
    IF c.pos < Len(x) /\ At(x, c.pos) = NL
    THEN [pos |-> c.pos + 1, line |-> c.line + 1, column |-> 1]
    ELSE [pos |-> c.pos + 1, line |-> c.line, column |-> c.column + 1]

(* Scanner.currentPos, parser.go:93-99 *)
currentPos(c, base) == [Line |-> c.line, Column |-> c.column, Offset |-> base + c.pos]

(* Scanner.errorAt, parser.go:114-119: the Pos of the ScanError *)
errorAt(c, base) == currentPos(c, base)

NoPos == [Line |-> 0, Column |-> 0, Offset |-> 0]

(* result of a sub-parser: the cursor it leaves, its string, its error *)
Res(c, out, err) == [c |-> c, out |-> out, err |-> err]

(* Scanner.parseBackQuote, parser.go:166-180 *)
RECURSIVE parseBackQuoteLoop(_, _, _)
parseBackQuoteLoop(x, c, i) ==
    IF c.pos < Len(x)
    THEN IF At(x, c.pos) = BQ
         THEN Res(advance(x, c), Slice(x, i, c.pos), NoErr)
         ELSE parseBackQuoteLoop(x, advance(x, c), i)
    ELSE Res(c, <<>>, ErrBack)

parseBackQuote(x, c) ==
    LET c1 == advance(x, c) IN parseBackQuoteLoop(x, c1, c1.pos)

(* parseQuote1Loop taking a backslash as an escape of the next byte *)
RECURSIVE parseQuote1Loop_Escapes(_, _, _)
parseQuote1Loop_Escapes(x, c, i) ==
    IF c.pos < Len(x)
    THEN IF At(x, c.pos) = Q1
         THEN Res(advance(x, c), Slice(x, i, c.pos), NoErr)
         ELSE IF At(x, c.pos) = BS
              THEN parseQuote1Loop_Escapes(x, advance(x, advance(x, c)), i)
              ELSE parseQuote1Loop_Escapes(x, advance(x, c), i)
    ELSE Res(c, <<>>, ErrQuote1)

(* Scanner.parseQuote1, parser.go:181-197 *)
RECURSIVE parseQuote1Loop(_, _, _)
parseQuote1Loop(x, c, i) ==
    IF c.pos < Len(x)
    THEN IF At(x, c.pos) = Q1
         THEN Res(advance(x, c), Slice(x, i, c.pos), NoErr)
         ELSE parseQuote1Loop(x, advance(x, c), i)
    ELSE Res(c, <<>>, ErrQuote1)

(* parseQuote1 that puts the cursor back on the opening quote when the     *)
(* string is not closed                                                    *)
parseQuote1_Rewinds(x, c) ==
    LET c1 == advance(x, c)
        r  == parseQuote1Loop(x, c1, c1.pos)
    IN  IF r.err # NoErr THEN Res(c, <<>>, r.err) ELSE r

parseQuote1(x, c) ==
    LET c1 == advance(x, c) IN parseQuote1Loop(x, c1, c1.pos)

(* parseBackslashEscape that skips the escaped byte before it tests for    *)
(* the end of the input                                                    *)
parseBackslashEscape_SkipsFirst(x, c) ==
    IF c.pos >= Len(x) THEN Res(c, <<>>, ErrSlash)
    ELSE LET c1 == advance(x, c)
             c2 == advance(x, c1)
         IN  IF c1.pos >= Len(x) THEN Res(c2, <<>>, ErrSlash)
             ELSE LET b == At(x, c1.pos) IN
                  CASE b = Ch_n -> Res(c2, <<NL>>, NoErr)
                    [] b = Ch_r -> Res(c2, <<CR>>, NoErr)
                    [] b = Ch_t -> Res(c2, <<TAB>>, NoErr)
                    [] b = BS   -> Res(c2, <<BS>>, NoErr)
                    [] b = Q2   -> Res(c2, <<Q2>>, NoErr)
                    [] b = Q1   -> Res(c2, <<Q1>>, NoErr)
                    [] b = NL   -> Res(c2, <<>>, NoErr)
                    [] OTHER    -> Res(c2, byteToString(b), NoErr)

(* Scanner.parseBackslashEscape, parser.go:227-262 *)
parseBackslashEscape(x, c) ==
    IF c.pos >= Len(x) THEN Res(c, <<>>, ErrSlash)
    ELSE LET c1 == advance(x, c) IN
         IF c1.pos >= Len(x) THEN Res(c1, <<>>, ErrSlash)
         ELSE LET b  == At(x, c1.pos)
                  c2 == advance(x, c1)
              IN  CASE b = Ch_n -> Res(c2, <<NL>>, NoErr)
                    [] b = Ch_r -> Res(c2, <<CR>>, NoErr)
                    [] b = Ch_t -> Res(c2, <<TAB>>, NoErr)
                    [] b = BS   -> Res(c2, <<BS>>, NoErr)
                    [] b = Q2   -> Res(c2, <<Q2>>, NoErr)
                    [] b = Q1   -> Res(c2, <<Q1>>, NoErr)
                    [] b = NL   -> Res(c2, <<>>, NoErr)
                    [] OTHER    -> Res(c2, byteToString(b), NoErr)

(* Scanner.parseBraceEscape, parser.go:265-292 *)
parseBraceEscape(x, c) ==
    IF c.pos >= Len(x) THEN Res(c, <<>>, ErrSlash)
    ELSE LET c1 == advance(x, c) IN
         IF c1.pos >= Len(x) THEN Res(c1, <<>>, ErrSlash)
         ELSE LET b  == At(x, c1.pos)
                  c2 == advance(x, c1)
              IN  CASE b = LB -> Res(c2, <<LB>>, NoErr)
                    [] b = RB -> Res(c2, <<RB>>, NoErr)
                    [] b = BS -> Res(c2, <<BS>>, NoErr)
                    [] OTHER  -> Res(c2, <<BS>> \o byteToString(b), NoErr)

(* Scanner.parseQuote2, parser.go:198-224 *)
RECURSIVE parseQuote2Loop(_, _, _, _)
parseQuote2Loop(x, c, i, out) ==
    IF c.pos < Len(x)
    THEN LET b == At(x, c.pos) IN
         CASE b = Q2 -> Res(advance(x, c), out \o Slice(x, i, c.pos), NoErr)
           [] b = BS -> LET out1 == out \o Slice(x, i, c.pos)
                            e    == parseBackslashEscape(x, c)
                        IN  IF e.err # NoErr THEN Res(e.c, out1, e.err)
                            ELSE parseQuote2Loop(x, e.c, e.c.pos, out1 \o e.out)
           [] OTHER  -> parseQuote2Loop(x, advance(x, c), i, out)
    ELSE Res(c, <<>>, ErrQuote2)

parseQuote2(x, c) ==
    LET c1 == advance(x, c) IN parseQuote2Loop(x, c1, c1.pos, <<>>)

(* Scanner.parseBareword, parser.go:120-165 *)
RECURSIVE parseBarewordLoop(_, _, _, _)
parseBarewordLoop(x, c, i, out) ==
    IF c.pos < Len(x)
    THEN LET b == At(x, c.pos) IN
         CASE isSpace(b) -> Res(c, out \o Slice(x, i, c.pos), NoErr)
           [] isQuote1(b) ->
                LET out1 == out \o Slice(x, i, c.pos)
                    q    == parseQuote1(x, c)
                IN  IF q.err # NoErr THEN Res(q.c, out1, q.err)
                    ELSE parseBarewordLoop(x, q.c, q.c.pos, out1 \o q.out)
           [] isQuote2(b) ->
                LET out1 == out \o Slice(x, i, c.pos)
                    q    == parseQuote2(x, c)
                IN  IF q.err # NoErr THEN Res(q.c, out1, q.err)
                    ELSE parseBarewordLoop(x, q.c, q.c.pos, out1 \o q.out)
           [] b = NL -> Res(c, out \o Slice(x, i, c.pos), NoErr)
           [] b = BS ->
                LET out1 == out \o Slice(x, i, c.pos)
                    e    == parseBackslashEscape(x, c)
                IN  IF e.err # NoErr THEN Res(e.c, out1, e.err)
                    ELSE parseBarewordLoop(x, e.c, e.c.pos, out1 \o e.out)
           [] OTHER -> parseBarewordLoop(x, advance(x, c), i, out)
    ELSE IF out = <<>> THEN Res(c, SliceFrom(x, i), NoErr)
         ELSE Res(c, out \o SliceFrom(x, i), NoErr)

parseBareword(x, c) == parseBarewordLoop(x, c, c.pos, <<>>)

----------------------------------------------------------------------------
(* strings.Split(s, "\n"), strings.Join(a, sep), strings.TrimSpace(s) = "" *)
RECURSIVE SplitFrom(_, _, _)
SplitFrom(x, k, cur) ==
    IF k > Len(x) THEN <<cur>>
    ELSE IF x[k] = NL THEN <<cur>> \o SplitFrom(x, k + 1, <<>>)
    ELSE SplitFrom(x, k + 1, Append(cur, x[k]))

Split(x) == SplitFrom(x, 1, <<>>)

RECURSIVE Join(_, _)
Join(a, sep) ==
    IF Len(a) = 0 THEN <<>>
    ELSE IF Len(a) = 1 THEN a[1]
    ELSE a[1] \o sep \o Join(Tail(a), sep)

(* unicode.IsSpace on a rune: \t \n \v \f \r, space, U+0085, U+00A0 and    *)
(* the runes of the White_Space property above Latin-1                     *)
isGoSpace(r) ==
    \/ r \in {9, 10, 11, 12, 13, 32, 133, 160, 5760, 8232, 8233, 8239, 8287, 12288}
    \/ (r >= 8192 /\ r <= 8202)

(* whether strings.TrimSpace(l) is the empty string, parser.go:499 and     *)
(* 551: TrimSpace decodes l rune by rune from the left and stops at the    *)
(* first rune that is not a space; a byte that is not valid UTF-8 is the   *)
(* rune U+FFFD, which is not one                                           *)
RECURSIVE isBlank(_)
isBlank(l) ==
    IF l = <<>> THEN TRUE
    ELSE LET d == DecodeRune(l) IN
         d.ok /\ isGoSpace(d.r) /\ isBlank(SubSeq(l, d.w + 1, Len(l)))

(* the leading run of spaces and tabs, parser.go:503-510 *)
RECURSIVE leadingWS(_)
leadingWS(l) ==
    IF Len(l) > 0 /\ (l[1] = SP \/ l[1] = TAB)
    THEN <<l[1]>> \o leadingWS(Tail(l))
    ELSE <<>>

(* commonOf that yields a prefix only when the two runs are the same *)
commonOf_SameOrNothing(a, b) == IF a = b THEN a ELSE <<>>

(* the common prefix of two runs, parser.go:524-537 *)
RECURSIVE commonOf(_, _)
commonOf(a, b) ==
    IF Len(a) > 0 /\ Len(b) > 0 /\ a[1] = b[1]
    THEN <<a[1]>> \o commonOf(Tail(a), Tail(b))
    ELSE <<>>

(* commonPrefix that keeps the first line's run *)
RECURSIVE commonPrefix_First(_, _)
commonPrefix_First(cp, ws) == cp

(* the fold over leadingWhitespace[1:], parser.go:521-538 *)
RECURSIVE commonPrefix(_, _)
commonPrefix(cp, ws) ==
    IF Len(ws) = 0 THEN cp ELSE commonPrefix(commonOf(cp, Head(ws)), Tail(ws))

(* dedent removing one byte of the common prefix *)
dedent_OneByte(x) ==
    IF x = <<>> THEN x
    ELSE LET lines == Split(x) IN
    IF Len(lines) <= 1 THEN x
    ELSE LET nonEmpty == SelectSeq(lines, LAMBDA l : ~isBlank(l))
             lws == [k \in 1..Len(nonEmpty) |-> leadingWS(nonEmpty[k])]
         IN
    IF Len(nonEmpty) = 0 THEN x
    ELSE LET cp == commonPrefix(lws[1], Tail(lws)) IN
    IF cp = <<>> THEN x
    ELSE Join([k \in 1..Len(lines) |->
                 IF isBlank(lines[k]) THEN lines[k] ELSE SliceFrom(lines[k], 1)],
              <<NL>>)

(* dedent removing the common prefix from blank lines too *)
dedent_TrimsBlank(x) ==
    IF x = <<>> THEN x
    ELSE LET lines == Split(x) IN
    IF Len(lines) <= 1 THEN x
    ELSE LET nonEmpty == SelectSeq(lines, LAMBDA l : ~isBlank(l))
             lws == [k \in 1..Len(nonEmpty) |-> leadingWS(nonEmpty[k])]
         IN
    IF Len(nonEmpty) = 0 THEN x
    ELSE LET cp == commonPrefix(lws[1], Tail(lws))
             n  == Len(cp)
         IN
    IF cp = <<>> THEN x
    ELSE Join([k \in 1..Len(lines) |->
                 IF Len(lines[k]) >= n /\ Slice(lines[k], 0, n) = cp
                 THEN SliceFrom(lines[k], n)
                 ELSE lines[k]],
              <<NL>>)

(* dedent, parser.go:484-563 *)
dedent(x) ==
    IF x = <<>> THEN x
    ELSE LET lines == Split(x) IN
    IF Len(lines) <= 1 THEN x
    ELSE LET nonEmpty == SelectSeq(lines, LAMBDA l : ~isBlank(l))
             lws == [k \in 1..Len(nonEmpty) |-> leadingWS(nonEmpty[k])]
         IN
    IF Len(nonEmpty) = 0 THEN x
    ELSE LET cp == commonPrefix(lws[1], Tail(lws))
             n  == Len(cp)
         IN
    IF cp = <<>> THEN x
    ELSE Join([k \in 1..Len(lines) |->
                 IF isBlank(lines[k]) THEN lines[k]
                 ELSE IF Len(lines[k]) >= n /\ Slice(lines[k], 0, n) = cp
                      THEN SliceFrom(lines[k], n)
                      ELSE lines[k]],
              <<NL>>)

(* parseBraceLoop that does not count an opening brace *)
RECURSIVE parseBraceLoop_NoNesting(_, _, _, _, _)
parseBraceLoop_NoNesting(x, c, i, out, stack) ==
    IF c.pos < Len(x)
    THEN LET b == At(x, c.pos) IN
         CASE b = BS -> LET out1 == out \o Slice(x, i, c.pos)
                            e    == parseBraceEscape(x, c)
                        IN  IF e.err # NoErr THEN Res(e.c, out1, e.err)
                            ELSE parseBraceLoop_NoNesting(x, e.c, e.c.pos, out1 \o e.out, stack)
           [] b = RB -> IF stack - 1 = 0
                        THEN Res(advance(x, c), dedent(out \o Slice(x, i, c.pos)), NoErr)
                        ELSE parseBraceLoop_NoNesting(x, advance(x, c), i, out, stack - 1)
           [] OTHER  -> parseBraceLoop_NoNesting(x, advance(x, c), i, out, stack)
    ELSE Res(c, <<>>, ErrBrace)

(* Scanner.parseBrace, parser.go:294-331 *)
RECURSIVE parseBraceLoop(_, _, _, _, _)
parseBraceLoop(x, c, i, out, stack) ==
    IF c.pos < Len(x)
    THEN LET b == At(x, c.pos) IN
         CASE b = BS -> LET out1 == out \o Slice(x, i, c.pos)
                            e    == parseBraceEscape(x, c)
                        IN  IF e.err # NoErr THEN Res(e.c, out1, e.err)
                            ELSE parseBraceLoop(x, e.c, e.c.pos, out1 \o e.out, stack)
           [] b = LB -> parseBraceLoop(x, advance(x, c), i, out, stack + 1)
           [] b = RB -> IF stack - 1 = 0
                        THEN Res(advance(x, c), dedent(out \o Slice(x, i, c.pos)), NoErr)
                        ELSE parseBraceLoop(x, advance(x, c), i, out, stack - 1)
           [] OTHER  -> parseBraceLoop(x, advance(x, c), i, out, stack)
    ELSE Res(c, <<>>, ErrBrace)

parseBrace(x, c) ==
    LET c1 == advance(x, c) IN parseBraceLoop(x, c1, c1.pos, <<>>, 1)

----------------------------------------------------------------------------
(* The formatter                                                           *)

(* isBarewordString, parser.go:385-398 *)
isBarewordString(a) ==
    IF a = <<>> THEN FALSE
    ELSE \A k \in 1..Len(a) : ~(~isBareword(a[k]) \/ a[k] = BS)

(* one lower-case hex digit, as fmt's %02x and strconv.Quote write it *)
hexDigit(n) == IF n < 10 THEN 48 + n ELSE 87 + n
hexEscape(b) == <<BS, Ch_x, hexDigit(b \div 16), hexDigit(b % 16)>>

(* the runes from U+0080 on that strconv.IsPrint rejects: the ranges of    *)
(* the Unicode categories C (control, format, surrogate, private use,      *)
(* unassigned) and Z (separators), Unicode 15.0 (Go 1.21 to 1.25)          *)
notPrint ==
    <<
     <<128, 160>>, <<173, 173>>, <<888, 889>>, <<896, 899>>, <<907, 907>>,
     <<909, 909>>, <<930, 930>>, <<1328, 1328>>, <<1367, 1368>>,
     <<1419, 1420>>, <<1424, 1424>>, <<1480, 1487>>, <<1515, 1518>>,
     <<1525, 1541>>, <<1564, 1564>>, <<1757, 1757>>, <<1806, 1807>>,
     <<1867, 1868>>, <<1970, 1983>>, <<2043, 2044>>, <<2094, 2095>>,
     <<2111, 2111>>, <<2140, 2141>>, <<2143, 2143>>, <<2155, 2159>>,
     <<2191, 2199>>, <<2274, 2274>>, <<2436, 2436>>, <<2445, 2446>>,
     <<2449, 2450>>, <<2473, 2473>>, <<2481, 2481>>, <<2483, 2485>>,
     <<2490, 2491>>, <<2501, 2502>>, <<2505, 2506>>, <<2511, 2518>>,
     <<2520, 2523>>, <<2526, 2526>>, <<2532, 2533>>, <<2559, 2560>>,
     <<2564, 2564>>, <<2571, 2574>>, <<2577, 2578>>, <<2601, 2601>>,
     <<2609, 2609>>, <<2612, 2612>>, <<2615, 2615>>, <<2618, 2619>>,
     <<2621, 2621>>, <<2627, 2630>>, <<2633, 2634>>, <<2638, 2640>>,
     <<2642, 2648>>, <<2653, 2653>>, <<2655, 2661>>, <<2679, 2688>>,
     <<2692, 2692>>, <<2702, 2702>>, <<2706, 2706>>, <<2729, 2729>>,
     <<2737, 2737>>, <<2740, 2740>>, <<2746, 2747>>, <<2758, 2758>>,
     <<2762, 2762>>, <<2766, 2767>>, <<2769, 2783>>, <<2788, 2789>>,
     <<2802, 2808>>, <<2816, 2816>>, <<2820, 2820>>, <<2829, 2830>>,
     <<2833, 2834>>, <<2857, 2857>>, <<2865, 2865>>, <<2868, 2868>>,
     <<2874, 2875>>, <<2885, 2886>>, <<2889, 2890>>, <<2894, 2900>>,
     <<2904, 2907>>, <<2910, 2910>>, <<2916, 2917>>, <<2936, 2945>>,
     <<2948, 2948>>, <<2955, 2957>>, <<2961, 2961>>, <<2966, 2968>>,
     <<2971, 2971>>, <<2973, 2973>>, <<2976, 2978>>, <<2981, 2983>>,
     <<2987, 2989>>, <<3002, 3005>>, <<3011, 3013>>, <<3017, 3017>>,
     <<3022, 3023>>, <<3025, 3030>>, <<3032, 3045>>, <<3067, 3071>>,
     <<3085, 3085>>, <<3089, 3089>>, <<3113, 3113>>, <<3130, 3131>>,
     <<3141, 3141>>, <<3145, 3145>>, <<3150, 3156>>, <<3159, 3159>>,
     <<3163, 3164>>, <<3166, 3167>>, <<3172, 3173>>, <<3184, 3190>>,
     <<3213, 3213>>, <<3217, 3217>>, <<3241, 3241>>, <<3252, 3252>>,
     <<3258, 3259>>, <<3269, 3269>>, <<3273, 3273>>, <<3278, 3284>>,
     <<3287, 3292>>, <<3295, 3295>>, <<3300, 3301>>, <<3312, 3312>>,
     <<3316, 3327>>, <<3341, 3341>>, <<3345, 3345>>, <<3397, 3397>>,
     <<3401, 3401>>, <<3408, 3411>>, <<3428, 3429>>, <<3456, 3456>>,
     <<3460, 3460>>, <<3479, 3481>>, <<3506, 3506>>, <<3516, 3516>>,
     <<3518, 3519>>, <<3527, 3529>>, <<3531, 3534>>, <<3541, 3541>>,
     <<3543, 3543>>, <<3552, 3557>>, <<3568, 3569>>, <<3573, 3584>>,
     <<3643, 3646>>, <<3676, 3712>>, <<3715, 3715>>, <<3717, 3717>>,
     <<3723, 3723>>, <<3748, 3748>>, <<3750, 3750>>, <<3774, 3775>>,
     <<3781, 3781>>, <<3783, 3783>>, <<3791, 3791>>, <<3802, 3803>>,
     <<3808, 3839>>, <<3912, 3912>>, <<3949, 3952>>, <<3992, 3992>>,
     <<4029, 4029>>, <<4045, 4045>>, <<4059, 4095>>, <<4294, 4294>>,
     <<4296, 4300>>, <<4302, 4303>>, <<4681, 4681>>, <<4686, 4687>>,
     <<4695, 4695>>, <<4697, 4697>>, <<4702, 4703>>, <<4745, 4745>>,
     <<4750, 4751>>, <<4785, 4785>>, <<4790, 4791>>, <<4799, 4799>>,
     <<4801, 4801>>, <<4806, 4807>>, <<4823, 4823>>, <<4881, 4881>>,
     <<4886, 4887>>, <<4955, 4956>>, <<4989, 4991>>, <<5018, 5023>>,
     <<5110, 5111>>, <<5118, 5119>>, <<5760, 5760>>, <<5789, 5791>>,
     <<5881, 5887>>, <<5910, 5918>>, <<5943, 5951>>, <<5972, 5983>>,
     <<5997, 5997>>, <<6001, 6001>>, <<6004, 6015>>, <<6110, 6111>>,
     <<6122, 6127>>, <<6138, 6143>>, <<6158, 6158>>, <<6170, 6175>>,
     <<6265, 6271>>, <<6315, 6319>>, <<6390, 6399>>, <<6431, 6431>>,
     <<6444, 6447>>, <<6460, 6463>>, <<6465, 6467>>, <<6510, 6511>>,
     <<6517, 6527>>, <<6572, 6575>>, <<6602, 6607>>, <<6619, 6621>>,
     <<6684, 6685>>, <<6751, 6751>>, <<6781, 6782>>, <<6794, 6799>>,
     <<6810, 6815>>, <<6830, 6831>>, <<6863, 6911>>, <<6989, 6991>>,
     <<7039, 7039>>, <<7156, 7163>>, <<7224, 7226>>, <<7242, 7244>>,
     <<7305, 7311>>, <<7355, 7356>>, <<7368, 7375>>, <<7419, 7423>>,
     <<7958, 7959>>, <<7966, 7967>>, <<8006, 8007>>, <<8014, 8015>>,
     <<8024, 8024>>, <<8026, 8026>>, <<8028, 8028>>, <<8030, 8030>>,
     <<8062, 8063>>, <<8117, 8117>>, <<8133, 8133>>, <<8148, 8149>>,
     <<8156, 8156>>, <<8176, 8177>>, <<8181, 8181>>, <<8191, 8207>>,
     <<8232, 8239>>, <<8287, 8303>>, <<8306, 8307>>, <<8335, 8335>>,
     <<8349, 8351>>, <<8385, 8399>>, <<8433, 8447>>, <<8588, 8591>>,
     <<9255, 9279>>, <<9291, 9311>>, <<11124, 11125>>, <<11158, 11158>>,
     <<11508, 11512>>, <<11558, 11558>>, <<11560, 11564>>, <<11566, 11567>>,
     <<11624, 11630>>, <<11633, 11646>>, <<11671, 11679>>, <<11687, 11687>>,
     <<11695, 11695>>, <<11703, 11703>>, <<11711, 11711>>, <<11719, 11719>>,
     <<11727, 11727>>, <<11735, 11735>>, <<11743, 11743>>, <<11870, 11903>>,
     <<11930, 11930>>, <<12020, 12031>>, <<12246, 12271>>, <<12284, 12288>>,
     <<12352, 12352>>, <<12439, 12440>>, <<12544, 12548>>, <<12592, 12592>>,
     <<12687, 12687>>, <<12772, 12783>>, <<12831, 12831>>, <<42125, 42127>>,
     <<42183, 42191>>, <<42540, 42559>>, <<42744, 42751>>, <<42955, 42959>>,
     <<42962, 42962>>, <<42964, 42964>>, <<42970, 42993>>, <<43053, 43055>>,
     <<43066, 43071>>, <<43128, 43135>>, <<43206, 43213>>, <<43226, 43231>>,
     <<43348, 43358>>, <<43389, 43391>>, <<43470, 43470>>, <<43482, 43485>>,
     <<43519, 43519>>, <<43575, 43583>>, <<43598, 43599>>, <<43610, 43611>>,
     <<43715, 43738>>, <<43767, 43776>>, <<43783, 43784>>, <<43791, 43792>>,
     <<43799, 43807>>, <<43815, 43815>>, <<43823, 43823>>, <<43884, 43887>>,
     <<44014, 44015>>, <<44026, 44031>>, <<55204, 55215>>, <<55239, 55242>>,
     <<55292, 63743>>, <<64110, 64111>>, <<64218, 64255>>, <<64263, 64274>>,
     <<64280, 64284>>, <<64311, 64311>>, <<64317, 64317>>, <<64319, 64319>>,
     <<64322, 64322>>, <<64325, 64325>>, <<64451, 64466>>, <<64912, 64913>>,
     <<64968, 64974>>, <<64976, 65007>>, <<65050, 65055>>, <<65107, 65107>>,
     <<65127, 65127>>, <<65132, 65135>>, <<65141, 65141>>, <<65277, 65280>>,
     <<65471, 65473>>, <<65480, 65481>>, <<65488, 65489>>, <<65496, 65497>>,
     <<65501, 65503>>, <<65511, 65511>>, <<65519, 65531>>, <<65534, 65535>>,
     <<65548, 65548>>, <<65575, 65575>>, <<65595, 65595>>, <<65598, 65598>>,
     <<65614, 65615>>, <<65630, 65663>>, <<65787, 65791>>, <<65795, 65798>>,
     <<65844, 65846>>, <<65935, 65935>>, <<65949, 65951>>, <<65953, 65999>>,
     <<66046, 66175>>, <<66205, 66207>>, <<66257, 66271>>, <<66300, 66303>>,
     <<66340, 66348>>, <<66379, 66383>>, <<66427, 66431>>, <<66462, 66462>>,
     <<66500, 66503>>, <<66518, 66559>>, <<66718, 66719>>, <<66730, 66735>>,
     <<66772, 66775>>, <<66812, 66815>>, <<66856, 66863>>, <<66916, 66926>>,
     <<66939, 66939>>, <<66955, 66955>>, <<66963, 66963>>, <<66966, 66966>>,
     <<66978, 66978>>, <<66994, 66994>>, <<67002, 67002>>, <<67005, 67071>>,
     <<67383, 67391>>, <<67414, 67423>>, <<67432, 67455>>, <<67462, 67462>>,
     <<67505, 67505>>, <<67515, 67583>>, <<67590, 67591>>, <<67593, 67593>>,
     <<67638, 67638>>, <<67641, 67643>>, <<67645, 67646>>, <<67670, 67670>>,
     <<67743, 67750>>, <<67760, 67807>>, <<67827, 67827>>, <<67830, 67834>>,
     <<67868, 67870>>, <<67898, 67902>>, <<67904, 67967>>, <<68024, 68027>>,
     <<68048, 68049>>, <<68100, 68100>>, <<68103, 68107>>, <<68116, 68116>>,
     <<68120, 68120>>, <<68150, 68151>>, <<68155, 68158>>, <<68169, 68175>>,
     <<68185, 68191>>, <<68256, 68287>>, <<68327, 68330>>, <<68343, 68351>>,
     <<68406, 68408>>, <<68438, 68439>>, <<68467, 68471>>, <<68498, 68504>>,
     <<68509, 68520>>, <<68528, 68607>>, <<68681, 68735>>, <<68787, 68799>>,
     <<68851, 68857>>, <<68904, 68911>>, <<68922, 69215>>, <<69247, 69247>>,
     <<69290, 69290>>, <<69294, 69295>>, <<69298, 69372>>, <<69416, 69423>>,
     <<69466, 69487>>, <<69514, 69551>>, <<69580, 69599>>, <<69623, 69631>>,
     <<69710, 69713>>, <<69750, 69758>>, <<69821, 69821>>, <<69827, 69839>>,
     <<69865, 69871>>, <<69882, 69887>>, <<69941, 69941>>, <<69960, 69967>>,
     <<70007, 70015>>, <<70112, 70112>>, <<70133, 70143>>, <<70162, 70162>>,
     <<70210, 70271>>, <<70279, 70279>>, <<70281, 70281>>, <<70286, 70286>>,
     <<70302, 70302>>, <<70314, 70319>>, <<70379, 70383>>, <<70394, 70399>>,
     <<70404, 70404>>, <<70413, 70414>>, <<70417, 70418>>, <<70441, 70441>>,
     <<70449, 70449>>, <<70452, 70452>>, <<70458, 70458>>, <<70469, 70470>>,
     <<70473, 70474>>, <<70478, 70479>>, <<70481, 70486>>, <<70488, 70492>>,
     <<70500, 70501>>, <<70509, 70511>>, <<70517, 70655>>, <<70748, 70748>>,
     <<70754, 70783>>, <<70856, 70863>>, <<70874, 71039>>, <<71094, 71095>>,
     <<71134, 71167>>, <<71237, 71247>>, <<71258, 71263>>, <<71277, 71295>>,
     <<71354, 71359>>, <<71370, 71423>>, <<71451, 71452>>, <<71468, 71471>>,
     <<71495, 71679>>, <<71740, 71839>>, <<71923, 71934>>, <<71943, 71944>>,
     <<71946, 71947>>, <<71956, 71956>>, <<71959, 71959>>, <<71990, 71990>>,
     <<71993, 71994>>, <<72007, 72015>>, <<72026, 72095>>, <<72104, 72105>>,
     <<72152, 72153>>, <<72165, 72191>>, <<72264, 72271>>, <<72355, 72367>>,
     <<72441, 72447>>, <<72458, 72703>>, <<72713, 72713>>, <<72759, 72759>>,
     <<72774, 72783>>, <<72813, 72815>>, <<72848, 72849>>, <<72872, 72872>>,
     <<72887, 72959>>, <<72967, 72967>>, <<72970, 72970>>, <<73015, 73017>>,
     <<73019, 73019>>, <<73022, 73022>>, <<73032, 73039>>, <<73050, 73055>>,
     <<73062, 73062>>, <<73065, 73065>>, <<73103, 73103>>, <<73106, 73106>>,
     <<73113, 73119>>, <<73130, 73439>>, <<73465, 73471>>, <<73489, 73489>>,
     <<73531, 73533>>, <<73562, 73647>>, <<73649, 73663>>, <<73714, 73726>>,
     <<74650, 74751>>, <<74863, 74863>>, <<74869, 74879>>, <<75076, 77711>>,
     <<77811, 77823>>, <<78896, 78911>>, <<78934, 82943>>, <<83527, 92159>>,
     <<92729, 92735>>, <<92767, 92767>>, <<92778, 92781>>, <<92863, 92863>>,
     <<92874, 92879>>, <<92910, 92911>>, <<92918, 92927>>, <<92998, 93007>>,
     <<93018, 93018>>, <<93026, 93026>>, <<93048, 93052>>, <<93072, 93759>>,
     <<93851, 93951>>, <<94027, 94030>>, <<94088, 94094>>, <<94112, 94175>>,
     <<94181, 94191>>, <<94194, 94207>>, <<100344, 100351>>,
     <<101590, 101631>>, <<101641, 110575>>, <<110580, 110580>>,
     <<110588, 110588>>, <<110591, 110591>>, <<110883, 110897>>,
     <<110899, 110927>>, <<110931, 110932>>, <<110934, 110947>>,
     <<110952, 110959>>, <<111356, 113663>>, <<113771, 113775>>,
     <<113789, 113791>>, <<113801, 113807>>, <<113818, 113819>>,
     <<113824, 118527>>, <<118574, 118575>>, <<118599, 118607>>,
     <<118724, 118783>>, <<119030, 119039>>, <<119079, 119080>>,
     <<119155, 119162>>, <<119275, 119295>>, <<119366, 119487>>,
     <<119508, 119519>>, <<119540, 119551>>, <<119639, 119647>>,
     <<119673, 119807>>, <<119893, 119893>>, <<119965, 119965>>,
     <<119968, 119969>>, <<119971, 119972>>, <<119975, 119976>>,
     <<119981, 119981>>, <<119994, 119994>>, <<119996, 119996>>,
     <<120004, 120004>>, <<120070, 120070>>, <<120075, 120076>>,
     <<120085, 120085>>, <<120093, 120093>>, <<120122, 120122>>,
     <<120127, 120127>>, <<120133, 120133>>, <<120135, 120137>>,
     <<120145, 120145>>, <<120486, 120487>>, <<120780, 120781>>,
     <<121484, 121498>>, <<121504, 121504>>, <<121520, 122623>>,
     <<122655, 122660>>, <<122667, 122879>>, <<122887, 122887>>,
     <<122905, 122906>>, <<122914, 122914>>, <<122917, 122917>>,
     <<122923, 122927>>, <<122990, 123022>>, <<123024, 123135>>,
     <<123181, 123183>>, <<123198, 123199>>, <<123210, 123213>>,
     <<123216, 123535>>, <<123567, 123583>>, <<123642, 123646>>,
     <<123648, 124111>>, <<124154, 124895>>, <<124903, 124903>>,
     <<124908, 124908>>, <<124911, 124911>>, <<124927, 124927>>,
     <<125125, 125126>>, <<125143, 125183>>, <<125260, 125263>>,
     <<125274, 125277>>, <<125280, 126064>>, <<126133, 126208>>,
     <<126270, 126463>>, <<126468, 126468>>, <<126496, 126496>>,
     <<126499, 126499>>, <<126501, 126502>>, <<126504, 126504>>,
     <<126515, 126515>>, <<126520, 126520>>, <<126522, 126522>>,
     <<126524, 126529>>, <<126531, 126534>>, <<126536, 126536>>,
     <<126538, 126538>>, <<126540, 126540>>, <<126544, 126544>>,
     <<126547, 126547>>, <<126549, 126550>>, <<126552, 126552>>,
     <<126554, 126554>>, <<126556, 126556>>, <<126558, 126558>>,
     <<126560, 126560>>, <<126563, 126563>>, <<126565, 126566>>,
     <<126571, 126571>>, <<126579, 126579>>, <<126584, 126584>>,
     <<126589, 126589>>, <<126591, 126591>>, <<126602, 126602>>,
     <<126620, 126624>>, <<126628, 126628>>, <<126634, 126634>>,
     <<126652, 126703>>, <<126706, 126975>>, <<127020, 127023>>,
     <<127124, 127135>>, <<127151, 127152>>, <<127168, 127168>>,
     <<127184, 127184>>, <<127222, 127231>>, <<127406, 127461>>,
     <<127491, 127503>>, <<127548, 127551>>, <<127561, 127567>>,
     <<127570, 127583>>, <<127590, 127743>>, <<128728, 128731>>,
     <<128749, 128751>>, <<128765, 128767>>, <<128887, 128890>>,
     <<128986, 128991>>, <<129004, 129007>>, <<129009, 129023>>,
     <<129036, 129039>>, <<129096, 129103>>, <<129114, 129119>>,
     <<129160, 129167>>, <<129198, 129199>>, <<129202, 129279>>,
     <<129620, 129631>>, <<129646, 129647>>, <<129661, 129663>>,
     <<129673, 129679>>, <<129726, 129726>>, <<129734, 129741>>,
     <<129756, 129759>>, <<129769, 129775>>, <<129785, 129791>>,
     <<129939, 129939>>, <<129995, 130031>>, <<130042, 131071>>,
     <<173792, 173823>>, <<177978, 177983>>, <<178206, 178207>>,
     <<183970, 183983>>, <<191457, 194559>>, <<195102, 196607>>,
     <<201547, 201551>>, <<205744, 917759>>, <<918000, 1114111>>
    >>

(* strconv.IsPrint: letters, marks, numbers, punctuation, symbols and the  *)
(* ASCII space                                                             *)
IsPrint(r) ==
    IF r < 128 THEN r >= 32 /\ r <= 126
    ELSE ~\E k \in 1..Len(notPrint) : notPrint[k][1] <= r /\ r <= notPrint[k][2]

(* the four hex digits of \uHHHH and the eight of \UHHHHHHHH *)
hex4(r) ==
    <<hexDigit(r \div 4096), hexDigit((r \div 256) % 16),
      hexDigit((r \div 16) % 16), hexDigit(r % 16)>>

(* strconv's appendEscapedRune for the double quote; enc is the rune's     *)
(* encoding in the argument                                                *)
appendEscapedRune(r, enc) ==
    CASE r = Q2     -> <<BS, Q2>>
      [] r = BS     -> <<BS, BS>>
      [] IsPrint(r) -> enc
      [] OTHER ->
           CASE r = 7   -> <<BS, 97>>
             [] r = 8   -> <<BS, 98>>
             [] r = 12  -> <<BS, 102>>
             [] r = NL  -> <<BS, Ch_n>>
             [] r = CR  -> <<BS, Ch_r>>
             [] r = TAB -> <<BS, Ch_t>>
             [] r = 11  -> <<BS, 118>>
             [] OTHER   ->
                  IF r < 32 \/ r = 127 THEN hexEscape(r)
                  ELSE IF r < 65536 THEN <<BS, 117>> \o hex4(r)
                  ELSE <<BS, 85>> \o hex4(r \div 65536) \o hex4(r % 65536)

(* the text strconv.Quote writes between the quotes, parser.go:441: rune   *)
(* by rune; a byte that is not valid UTF-8 is written \xHH                 *)
RECURSIVE strconvQuoted(_)
strconvQuoted(a) ==
    IF a = <<>> THEN <<>>
    ELSE LET d == DecodeRune(a) IN
         (IF ~d.ok THEN hexEscape(a[1])
          ELSE appendEscapedRune(d.r, SubSeq(a, 1, d.w)))
         \o strconvQuoted(SubSeq(a, d.w + 1, Len(a)))

(* the manual quoting of one byte, parser.go:412-433 *)
braceQuoteByte(b) ==
    CASE b = Q2  -> <<BS, Q2>>
      [] b = BS  -> <<BS, BS>>
      [] b = LB  -> <<BS, LB>>
      [] b = RB  -> <<BS, RB>>
      [] b = NL  -> <<BS, Ch_n>>
      [] b = CR  -> <<BS, Ch_r>>
      [] b = TAB -> <<BS, Ch_t>>
      [] OTHER   -> IF b < 32 THEN hexEscape(b) ELSE <<b>>

RECURSIVE Flatten(_)
Flatten(ss) == IF Len(ss) = 0 THEN <<>> ELSE Head(ss) \o Flatten(Tail(ss))

(* quoteArg, parser.go:401-442 *)
quoteArg(a) ==
    LET needsBraceEscape == \E k \in 1..Len(a) : a[k] = LB \/ a[k] = RB IN
    IF needsBraceEscape
    THEN <<Q2>> \o Flatten([k \in 1..Len(a) |-> braceQuoteByte(a[k])]) \o <<Q2>>
    ELSE <<Q2>> \o strconvQuoted(a) \o <<Q2>>

(* FormatIndent writing the block for an empty body too *)
FormatIndent_BlockForEmptyBody(as, body, indent) ==
    LET parts  == [k \in 1..Len(as) |->
                     IF isBarewordString(as[k]) THEN as[k] ELSE quoteArg(as[k])]
        result == Join(parts, <<SP>>)
    IN  IF indent # <<>>
        THEN LET lines == Split(body) IN
             result \o <<SP, LB, NL>>
               \o Flatten([k \in 1..Len(lines) |-> indent \o lines[k] \o <<NL>>])
               \o <<RB>>
        ELSE result \o <<SP, LB, NL>> \o body \o <<NL>> \o <<RB>>

(* FormatIndent leaving empty lines of the body without indent *)
FormatIndent_SkipsEmptyLines(as, body, indent) ==
    LET parts  == [k \in 1..Len(as) |->
                     IF isBarewordString(as[k]) THEN as[k] ELSE quoteArg(as[k])]
        result == Join(parts, <<SP>>)
    IN  IF body # <<>>
        THEN IF indent # <<>>
             THEN LET lines == Split(body) IN
                  result \o <<SP, LB, NL>>
                    \o Flatten([k \in 1..Len(lines) |->
                                  IF lines[k] = <<>> THEN <<NL>>
                                  ELSE indent \o lines[k] \o <<NL>>])
                    \o <<RB>>
             ELSE result \o <<SP, LB, NL>> \o body \o <<NL>> \o <<RB>>
        ELSE result

(* FormatIndent, parser.go:446-479 *)
FormatIndent(as, body, indent) ==
    LET parts  == [k \in 1..Len(as) |->
                     IF isBarewordString(as[k]) THEN as[k] ELSE quoteArg(as[k])]
        result == Join(parts, <<SP>>)
    IN  IF body # <<>>
        THEN IF indent # <<>>
             THEN LET lines == Split(body) IN
                  result \o <<SP, LB, NL>>
                    \o Flatten([k \in 1..Len(lines) |-> indent \o lines[k] \o <<NL>>])
                    \o <<RB>>
             ELSE result \o <<SP, LB, NL>> \o body \o <<NL>> \o <<RB>>
        ELSE result

(* Format, parser.go:567-569 *)
Format(as, body) == FormatIndent(as, body, <<>>)

----------------------------------------------------------------------------
(* The inputs: every byte string of at most MaxLen bytes over Alphabet,    *)
(* and inputs of the repository's tests and README, written as Go string   *)
(* literals, in the order of Samples:                                      *)
(*   "cmd { a { b } c }"                      nested braces *)
(*   "cmd { x \\{ y \\} z }"                  escaped braces in a body *)
(*   "echo a\\\nb"                            continuation inside a bareword *)
(*   "cmd arg1 \\\n    arg2"                  continuation after whitespace *)
(*   "cmd{x}"                                 brace directly after a bareword *)
(*   "'unclosed"                              unterminated single quote *)
(*   "cmd1 arg1\ncmd2 { nested }\n"           two commands, the second with a body *)
(*   "a'b'c"                                  mixed quoting *)
(*   "\"first\"='mary ann'"                   mixed quoting *)
(*   "cmd {}"                                 empty body *)
(*   "cmd \"a\\\"b\" 'c\\d' e\\f"             mixed quotes and escaping *)
(*   "echo `hello\nworld`"                    backtick string with a newline *)
(*   "cmd {\n  a\n  b\n}"                     indented body *)
(*   "echo \"a\\tb\\rc\""                     tab and carriage return escapes *)
(*   "   name   John   \n\n\nx"               blank lines between commands *)
(*   "   \t  \n  "                            only whitespace *)
(*   "a\tb \\\n\tc\n"                         tabs between arguments *)
(*   "x { \\{ \\} \\\\ \\n }"                 every escape of a brace block *)
(*   "\"say \\\"hi\\\"\\n\" x"                escaped quotes in double quotes *)
(*   "cmd {outer {inner} more} x"             nested braces, text after the block *)
(*   "cmd{x"                                  unclosed brace after a bareword *)
(*   "cmd 'a\nb"                              unterminated quote on the second line *)
Alphabet == {NL, CR, SP, Q2, Q1, BS, BQ, LB, RB, Ch_n}

(* the last seven hold bytes from 0x80 on: the byte 0xC8 and the text     *)
(* "caf\u00e9 '\u00e9'" unescaped, 0xC8 and U+00E9 after a backslash in a   *)
(* bareword, in double quotes and in a block, and a block whose middle     *)
(* line is U+00A0                                                          *)
Samples ==
    {
      <<99, 109, 100, 32, 123, 32, 97, 32, 123, 32, 98, 32, 125, 32, 99, 32, 125>>,
      <<99, 109, 100, 32, 123, 32, 120, 32, 92, 123, 32, 121, 32, 92, 125, 32, 122, 32, 125>>,
      <<101, 99, 104, 111, 32, 97, 92, 10, 98>>,
      <<99, 109, 100, 32, 97, 114, 103, 49, 32, 92, 10, 32, 32, 32, 32, 97, 114, 103, 50>>,
      <<99, 109, 100, 123, 120, 125>>,
      <<39, 117, 110, 99, 108, 111, 115, 101, 100>>,
      <<99, 109, 100, 49, 32, 97, 114, 103, 49, 10, 99, 109, 100, 50, 32, 123, 32, 110, 101, 115, 116, 101, 100, 32, 125, 10>>,
      <<97, 39, 98, 39, 99>>,
      <<34, 102, 105, 114, 115, 116, 34, 61, 39, 109, 97, 114, 121, 32, 97, 110, 110, 39>>,
      <<99, 109, 100, 32, 123, 125>>,
      <<99, 109, 100, 32, 34, 97, 92, 34, 98, 34, 32, 39, 99, 92, 100, 39, 32, 101, 92, 102>>,
      <<101, 99, 104, 111, 32, 96, 104, 101, 108, 108, 111, 10, 119, 111, 114, 108, 100, 96>>,
      <<99, 109, 100, 32, 123, 10, 32, 32, 97, 10, 32, 32, 98, 10, 125>>,
      <<101, 99, 104, 111, 32, 34, 97, 92, 116, 98, 92, 114, 99, 34>>,
      <<32, 32, 32, 110, 97, 109, 101, 32, 32, 32, 74, 111, 104, 110, 32, 32, 32, 10, 10, 10, 120>>,
      <<32, 32, 32, 9, 32, 32, 10, 32, 32>>,
      <<97, 9, 98, 32, 92, 10, 9, 99, 10>>,
      <<120, 32, 123, 32, 92, 123, 32, 92, 125, 32, 92, 92, 32, 92, 110, 32, 125>>,
      <<34, 115, 97, 121, 32, 92, 34, 104, 105, 92, 34, 92, 110, 34, 32, 120>>,
      <<99, 109, 100, 32, 123, 111, 117, 116, 101, 114, 32, 123, 105, 110, 110, 101, 114, 125, 32, 109, 111, 114, 101, 125, 32, 120>>,
      <<99, 109, 100, 123, 120>>,
      <<99, 109, 100, 32, 39, 97, 10, 98>>,
      <<200>>,
      <<99, 97, 102, 195, 169, 32, 39, 195, 169, 39>>,
      <<92, 200>>,
      <<92, 195, 169>>,
      <<34, 97, 92, 200, 34>>,
      <<99, 32, 123, 92, 200, 125>>,
      <<99, 32, 123, 32, 32, 97, 10, 194, 160, 10, 32, 32, 98, 125>>
    }

Inputs == SeqsUpTo(Alphabet, MaxLen) \cup Samples

(* NewScanner, parser.go:69-77 *)
NewScanner(x) == [s |-> x, pos |-> 0, line |-> 1, column |-> 1, baseOffset |-> 0]

(* NewFromScanner, parser.go:81-90; c and base are the parent's cursor and *)
(* baseOffset                                                              *)
NewFromScanner(c, base, x) ==
    LET parentPos == currentPos(c, base) IN
    [s |-> x, pos |-> 0, line |-> parentPos.Line, column |-> 1,
     baseOffset |-> parentPos.Offset]

NoRet == [args |-> <<>>, body |-> <<>>, err |-> NoErr, epos |-> NoPos,
          kind |-> "none", at |-> 0]

NoParent == [s |-> <<>>, pos |-> 0, line |-> 0, column |-> 0, baseOffset |-> 0,
             at |-> 0, depth |-> 0]

Fresh(x) ==
    LET sc == NewScanner(x) IN
    /\ in = sc.s
    /\ pos = sc.pos
    /\ line = sc.line
    /\ column = sc.column
    /\ baseOffset = sc.baseOffset
    /\ args = <<>>
    /\ ret = NoRet
    /\ startPos = 0
    /\ iter = 0
    /\ spin = 0
    /\ hist = <<>>
    /\ eofs = 0
    /\ parent = NoParent

Init ==
    /\ \E x \in Inputs : Fresh(x)
    /\ pc = "idle"
    /\ fArgs = <<>>
    /\ fBody = <<>>
    /\ fIndent = <<>>
    /\ fOut = <<>>

----------------------------------------------------------------------------
(* Scanner.Next, parser.go:341-382, one iteration of its loop per step     *)

cur == Cursor(pos, line, column)

SetCur(c) ==
    /\ pos' = c.pos
    /\ line' = c.line
    /\ column' = c.column

(* the case of Next's switch that a byte selects, parser.go:350-373 *)
NextCase(b) ==
    IF isSpace(b) THEN "space"
    ELSE IF isBareword(b) \/ isQuote1(b) \/ isQuote2(b) \/ b = BS THEN "word"
    ELSE IF isBackQuote(b) THEN "back"
    ELSE IF isLeftBrace(b) THEN "brace"
    ELSE IF isNewLine(b) THEN "newline"
    ELSE "none"

(* a return statement of Next, reached with the cursor at c; a ScanError   *)
(* carries the position at which the sub-parser made it                    *)
Return(as, bd, e, c, k, at) ==
    /\ pc' = "idle"
    /\ args' = as
    /\ ret' = [args |-> as, body |-> bd, err |-> e,
               epos |-> IF isScanError(e) THEN errorAt(c, baseOffset) ELSE NoPos,
               kind |-> k, at |-> at]
    /\ hist' = Append(hist, [args |-> as, body |-> bd, err |-> e])
    /\ eofs' = IF e = ErrEOF THEN eofs + 1 ELSE eofs

(* the loop goes round again *)
Again(as) ==
    /\ pc' = "loop"
    /\ args' = as
    /\ UNCHANGED <<ret, hist, eofs>>

InLoop(k) ==
    /\ pc = "loop"
    /\ pos < Len(in)
    /\ NextCase(At(in, pos)) = k

(* the caller calls Next, parser.go:342-346 *)
Call ==
    /\ pc = "idle"
    /\ eofs < MaxEofs
    /\ pc' = "loop"
    /\ args' = <<>>
    /\ startPos' = pos
    /\ iter' = 0
    /\ spin' = 0
    /\ UNCHANGED <<in, pos, line, column, baseOffset, ret, hist, eofs, fArgs, fBody,
                   fIndent, fOut, parent>>

(* case isSpace(b), parser.go:351-352 *)
IterSpace ==
    /\ InLoop("space")
    /\ SetCur(advance(in, cur))
    /\ Again(args)
    /\ iter' = iter + 1
    /\ UNCHANGED <<in, baseOffset, startPos, spin, fArgs, fBody,
                   fIndent, fOut, parent>>

(* case isBareword(b) || isQuote1(b) || isQuote2(b) || b == '\\', parser.go:353-358 *)
IterWord ==
    /\ InLoop("word")
    /\ LET r == parseBareword(in, cur) IN
         /\ SetCur(r.c)
         /\ IF r.err # NoErr
            THEN Return(args, <<>>, r.err, r.c, "word", pos)
            ELSE Again(Append(args, r.out))
    /\ iter' = iter + 1
    /\ UNCHANGED <<in, baseOffset, startPos, spin, fArgs, fBody,
                   fIndent, fOut, parent>>

(* case isBackQuote(b), parser.go:359-364 *)
IterBackQuote ==
    /\ InLoop("back")
    /\ LET r == parseBackQuote(in, cur) IN
         /\ SetCur(r.c)
         /\ IF r.err # NoErr
            THEN Return(args, <<>>, r.err, r.c, "back", pos)
            ELSE Again(Append(args, r.out))
    /\ iter' = iter + 1
    /\ UNCHANGED <<in, baseOffset, startPos, spin, fArgs, fBody,
                   fIndent, fOut, parent>>

(* case isLeftBrace(b), parser.go:365-367 *)
IterBrace ==
    /\ InLoop("brace")
    /\ LET r == parseBrace(in, cur) IN
         /\ SetCur(r.c)
         /\ Return(args, r.out, r.err, r.c, "brace", pos)
    /\ iter' = iter + 1
    /\ UNCHANGED <<in, baseOffset, startPos, spin, fArgs, fBody,
                   fIndent, fOut, parent>>

(* IterNewLine without the test of len(args) *)
IterNewLine_NoArgsTest ==
    /\ InLoop("newline")
    /\ SetCur(advance(in, cur))
    /\ Return(args, <<>>, NoErr, advance(in, cur), "newline", pos)
    /\ iter' = iter + 1
    /\ UNCHANGED <<in, baseOffset, startPos, spin, fArgs, fBody,
                   fIndent, fOut, parent>>

(* case isNewLine(b), parser.go:368-372 *)
IterNewLine ==
    /\ InLoop("newline")
    /\ SetCur(advance(in, cur))
    /\ IF Len(args) > 0
       THEN Return(args, <<>>, NoErr, advance(in, cur), "newline", pos)
       ELSE Again(args)
    /\ iter' = iter + 1
    /\ UNCHANGED <<in, baseOffset, startPos, spin, fArgs, fBody,
                   fIndent, fOut, parent>>

(* no case of the switch matches: the iteration changes nothing, parser.go:350-375 *)
IterNoCase ==
    /\ InLoop("none")
    /\ spin < MaxSpin
    /\ spin' = spin + 1
    /\ iter' = iter + 1
    /\ UNCHANGED <<in, pos, line, column, baseOffset, pc, args, ret, startPos,
                   hist, eofs, fArgs, fBody,
                   fIndent, fOut, parent>>

(* AtEnd without the test of len(args) *)
AtEnd_AlwaysEOF ==
    /\ pc = "loop"
    /\ ~(pos < Len(in))
    /\ Return(<<>>, <<>>, ErrEOF, cur, "eof", pos)
    /\ UNCHANGED <<in, pos, line, column, baseOffset, startPos, iter, spin, fArgs, fBody,
                   fIndent, fOut, parent>>

(* the loop condition fails, parser.go:377-381 *)
AtEnd ==
    /\ pc = "loop"
    /\ ~(pos < Len(in))
    /\ IF Len(args) = 0
       THEN Return(<<>>, <<>>, ErrEOF, cur, "eof", pos)
       ELSE Return(args, <<>>, NoErr, cur, "end", pos)
    /\ UNCHANGED <<in, pos, line, column, baseOffset, startPos, iter, spin, fArgs, fBody,
                   fIndent, fOut, parent>>

Next ==
    \/ Call
    \/ IterSpace
    \/ IterWord
    \/ IterBackQuote
    \/ IterBrace
    \/ IterNewLine
    \/ IterNoCase
    \/ AtEnd

Spec == Init /\ [][Next]_vars

----------------------------------------------------------------------------
(* Scan, then scan the body again with a scanner made by NewFromScanner    *)

(* the caller re-roots the scanner on the body that Next just returned,    *)
(* as TestNestedScannerPositions does                                      *)
Reroot ==
    /\ pc = "idle"
    /\ Len(hist) > 0
    /\ ret.kind = "brace"
    /\ ret.err = NoErr
    /\ parent.depth < MaxNest
    /\ LET sc == NewFromScanner(cur, baseOffset, ret.body) IN
         /\ in' = sc.s
         /\ pos' = sc.pos
         /\ line' = sc.line
         /\ column' = sc.column
         /\ baseOffset' = sc.baseOffset
    /\ parent' = [s |-> in, pos |-> pos, line |-> line, column |-> column,
                  baseOffset |-> baseOffset, at |-> ret.at,
                  depth |-> parent.depth + 1]
    /\ args' = <<>>
    /\ ret' = NoRet
    /\ startPos' = 0
    /\ iter' = 0
    /\ spin' = 0
    /\ hist' = <<>>
    /\ eofs' = 0
    /\ UNCHANGED <<pc, fArgs, fBody, fIndent, fOut>>

NextNest ==
    \/ Reroot
    \/ Call
    \/ IterSpace
    \/ IterWord
    \/ IterBackQuote
    \/ IterBrace
    \/ IterNewLine
    \/ IterNoCase
    \/ AtEnd

SpecNest == Init /\ [][NextNest]_vars

----------------------------------------------------------------------------
(* Format, then scan what it wrote                                         *)

(* the arguments given to Format: the empty string, a bareword, and one    *)
(* argument for each byte the formatter treats specially                   *)
FmtArgs ==
    { <<>>, <<Ch_n>>, <<SP>>, <<Q2>>, <<BS>>, <<LB, RB>>, <<NL>>, <<1>> }

BodyAlphabet == {NL, SP, RB, Ch_n}

(* bodies of the tests ("config content", "{ a }", "C:\W"), an indented   *)
(* body, an escaped backslash, bodies with an unbalanced closing brace,    *)
(* and a body with an empty line in the middle                             *)
BodySamples ==
    { <<99, 111, 110, 102, 105, 103, 32, 99, 111, 110, 116, 101, 110, 116>>,
      <<123, 32, 97, 32, 125>>,
      <<67, 58, 92, 87>>,
      <<32, 32, 110, 10, 32, 32, 110>>,
      <<92, 92>>,
      <<RB, BQ, 110, BQ>>,
      <<RB, CR>>,
      <<110, 10, 10, 110>> }

(* argument lists with bytes from 0x80 on: a byte that is not UTF-8 after  *)
(* a space and alone, U+00A0 (not printable) before a space, U+00E9 alone  *)
(* and before a space, U+2028 alone and after a space, U+1F600 after a     *)
(* space, U+E0001 (not printable, outside the BMP) after a space, and     *)
(* U+1FAE8 (printable since Unicode 15.0) before a space                   *)
FmtArgSamples ==
    { << <<97, 32, 128>> >>,
      << <<200>> >>,
      << <<194, 160, 32, 120>> >>,
      << <<195, 169>> >>,
      << <<195, 169, 32>> >>,
      << <<226, 128, 168>> >>,
      << <<32, 226, 128, 168>> >>,
      << <<32, 240, 159, 152, 128>> >>,
      << <<32, 243, 160, 128, 129>> >>,
      << <<240, 159, 171, 168, 32, 120>> >>,
      << <<110>>, <<123, 200, 32, 194, 133>> >> }

FmtArgLists == SeqsUpTo(FmtArgs, MaxArgs) \cup FmtArgSamples

FmtBodies == SeqsUpTo(BodyAlphabet, MaxBodyLen) \cup BodySamples

InitRT ==
    /\ Fresh(<<>>)
    /\ pc = "fmt"
    /\ fArgs \in FmtArgLists
    /\ fBody \in FmtBodies
    /\ fIndent = <<>>
    /\ fOut = <<>>

(* the caller formats a command and makes a scanner of the text *)
FormatStep ==
    /\ pc = "fmt"
    /\ pc' = "idle"
    /\ LET sc == NewScanner(Format(fArgs, fBody)) IN
         /\ in' = sc.s
         /\ pos' = sc.pos
         /\ line' = sc.line
         /\ column' = sc.column
         /\ baseOffset' = sc.baseOffset
    /\ UNCHANGED <<args, ret, startPos, iter, spin, hist, eofs, fArgs, fBody,
                   fIndent, fOut, parent>>

NextRT ==
    \/ FormatStep
    \/ Call
    \/ IterSpace
    \/ IterWord
    \/ IterBackQuote
    \/ IterBrace
    \/ IterNewLine
    \/ IterNoCase
    \/ AtEnd

SpecRT == InitRT /\ [][NextRT]_vars

----------------------------------------------------------------------------
(* FormatIndent and dedent applied to inputs of their own                  *)

(* the indents of TestFormatIndent: none, two spaces, a tab, four spaces *)
Indents == { <<>>, <<SP, SP>>, <<TAB>>, <<SP, SP, SP, SP>> }

InitFmt ==
    /\ Fresh(<<>>)
    /\ pc = "fn"
    /\ fArgs \in FmtArgLists
    /\ fBody \in FmtBodies
    /\ fIndent \in Indents
    /\ fOut = <<>>

(* the caller formats a command with an indent *)
FormatIndentStep ==
    /\ pc = "fn"
    /\ pc' = "formatted"
    /\ fOut' = FormatIndent(fArgs, fBody, fIndent)
    /\ UNCHANGED <<in, pos, line, column, baseOffset, args, ret, startPos, iter,
                   spin, hist, eofs, fArgs, fBody, fIndent, parent>>

NextFmt == FormatIndentStep

SpecFmt == InitFmt /\ [][NextFmt]_vars

DedentAlphabet == {SP, TAB, NL, CR, Ch_n}

(* inputs of TestDedent, as Go string literals:                            *)
(*   "  line1\n    line2"        "    line1\n  line2"                      *)
(*   "  line1\n\n  line3"        "  line1  \n  line2\t"                    *)
(*   "  line1\nline2\n  line3"   " a\n b\n c"     "  a\n  \n   b"          *)
(* and lines of Unicode spaces (U+00A0; U+2003 and a space), a line that   *)
(* is the lone byte 0xA0, and an indented U+00E9                           *)
DedentSamples ==
    { <<32, 32, 108, 105, 110, 101, 49, 10, 32, 32, 32, 32, 108, 105, 110, 101, 50>>,
      <<32, 32, 32, 32, 108, 105, 110, 101, 49, 10, 32, 32, 108, 105, 110, 101, 50>>,
      <<32, 32, 108, 105, 110, 101, 49, 10, 10, 32, 32, 108, 105, 110, 101, 51>>,
      <<32, 32, 108, 105, 110, 101, 49, 32, 32, 10, 32, 32, 108, 105, 110, 101, 50, 9>>,
      <<32, 32, 108, 105, 110, 101, 49, 10, 108, 105, 110, 101, 50, 10, 32, 32, 108, 105, 110, 101, 51>>,
      <<32, 97, 10, 32, 98, 10, 32, 99>>,
      <<32, 32, 97, 10, 32, 32, 10, 32, 32, 32, 98>>,
      <<32, 32, 97, 10, 194, 160, 10, 32, 32, 98>>,
      <<32, 97, 10, 226, 128, 131, 32, 10, 32, 98>>,
      <<32, 32, 97, 10, 160, 10, 32, 32, 98>>,
      <<32, 195, 169, 10, 32, 98>> }

DedentInputs == SeqsUpTo(DedentAlphabet, MaxDedentLen) \cup DedentSamples

InitDedent ==
    /\ Fresh(<<>>)
    /\ pc = "fn"
    /\ fArgs = <<>>
    /\ fBody \in DedentInputs
    /\ fIndent = <<>>
    /\ fOut = <<>>

(* dedent applied to the input *)
DedentStep ==
    /\ pc = "fn"
    /\ pc' = "dedent1"
    /\ fOut' = dedent(fBody)
    /\ UNCHANGED <<in, pos, line, column, baseOffset, args, ret, startPos, iter,
                   spin, hist, eofs, fArgs, fBody, fIndent, parent>>

(* dedent applied to its own result *)
DedentAgain ==
    /\ pc = "dedent1"
    /\ pc' = "dedent2"
    /\ fOut' = dedent(fOut)
    /\ UNCHANGED <<in, pos, line, column, baseOffset, args, ret, startPos, iter,
                   spin, hist, eofs, fArgs, fBody, fIndent, parent>>

NextDedent ==
    \/ DedentStep
    \/ DedentAgain

SpecDedent == InitDedent /\ [][NextDedent]_vars

----------------------------------------------------------------------------
(* Properties                                                              *)

(* Next has returned: ret holds its result, startPos where it started *)
Returned == pc = "idle" /\ Len(hist) > 0

(* the input that was left at the cursor when the last call started *)
Rest == SliceFrom(in, startPos)

Has(x, b) == \E k \in 1..Len(x) : x[k] = b
OnlyOf(x, S) == \A k \in 1..Len(x) : x[k] \in S

ScanErrors == {ErrQuote1, ErrQuote2, ErrBack, ErrBrace, ErrSlash}

(* C1: round trip.  The first Next of a fresh scanner on Format(A, B)      *)
(* returns no error and arguments equal to A; the body is "\n" + B + "\n"  *)
(* if B is non-empty and empty if B is empty.                              *)
C1_RoundTrip ==
    (Returned /\ Len(hist) = 1 /\ in = Format(fArgs, fBody)) =>
        /\ ret.err = NoErr
        /\ ret.args = fArgs
        /\ ret.body = IF fBody # <<>> THEN <<NL>> \o fBody \o <<NL>> ELSE <<>>

(* C2: termination.  Every iteration of Next's loop that does not return   *)
(* moves the cursor forward, so a call makes at most one iteration per     *)
(* byte that was left.                                                     *)
C2_EveryIterationAdvances ==
    [][(pc = "loop" /\ pc' = "loop") => pos' > pos]_vars

(* C3: Next returns io.EOF exactly when only spaces, tabs and newlines     *)
(* were left at the cursor; io.EOF is no ScanError and comes with no       *)
(* arguments and no body.                                                  *)
C3_EofIffBlank ==
    Returned =>
        /\ (ret.err = ErrEOF) <=> OnlyOf(Rest, {SP, TAB, NL})
        /\ ret.err = ErrEOF => (ret.args = <<>> /\ ret.body = <<>> /\ ret.err \notin ScanErrors)

(* a second call that found only whitespace left *)
C3_Witness ==
    /\ Returned
    /\ ret.err = ErrEOF
    /\ startPos > 0
    /\ Len(Rest) > 1
    /\ Has(Rest, NL)

(* the commands of an input of words, spaces, tabs and newlines: its       *)
(* non-blank lines, each split into its words                              *)
RECURSIVE C4_Words(_, _, _)
C4_Words(l, k, w) ==
    IF k > Len(l) THEN (IF w = <<>> THEN <<>> ELSE <<w>>)
    ELSE IF l[k] \in {SP, TAB}
         THEN (IF w = <<>> THEN <<>> ELSE <<w>>) \o C4_Words(l, k + 1, <<>>)
         ELSE C4_Words(l, k + 1, Append(w, l[k]))

C4_Commands(x) ==
    LET ls == Split(x)
        ws == [k \in 1..Len(ls) |-> C4_Words(ls[k], 1, <<>>)]
        ne == SelectSeq(ws, LAMBDA a : a # <<>>)
    IN  [k \in 1..Len(ne) |-> [args |-> ne[k], body |-> <<>>, err |-> NoErr]]

C4_Plain(x) ==
    \A k \in 1..Len(x) :
        x[k] \in {SP, TAB, NL} \/ (x[k] > 32 /\ x[k] \notin {Q1, Q2, BQ, LB, BS})

(* C4: successive calls return the commands of the input in source order,  *)
(* each once.  For an input of words, spaces, tabs and newlines the        *)
(* commands are its non-blank lines, each split into its words; a command  *)
(* ended by a newline or by the end of input has arguments and no body;    *)
(* after io.EOF every further call returns io.EOF.                         *)
C4_CommandsInOrder ==
    /\ (Returned /\ eofs >= 1 /\ C4_Plain(in)) =>
           SelectSeq(hist, LAMBDA h : h.err # ErrEOF) = C4_Commands(in)
    /\ \A i \in 1..Len(hist) : \A j \in 1..Len(hist) :
           (i < j /\ hist[i].err = ErrEOF) => hist[j] = hist[i]
    /\ (Returned /\ ret.kind \in {"newline", "end"}) =>
           (Len(ret.args) > 0 /\ ret.body = <<>> /\ ret.err = NoErr)

(* two commands, a blank line between them, no newline after the last,     *)
(* and io.EOF returned twice                                               *)
C4_Witness ==
    /\ Returned
    /\ eofs = 2
    /\ C4_Plain(in)
    /\ Len(C4_Commands(in)) = 2
    /\ in[Len(in)] # NL
    /\ \E k \in 1..(Len(in) - 1) : in[k] = NL /\ in[k + 1] = NL

(* C5: an unquoted, unescaped opening brace always starts the body, also   *)
(* directly after bareword bytes: it is never a byte of an argument.       *)
C5_BraceEndsArguments ==
    (Returned /\ ~Has(in, Q1) /\ ~Has(in, Q2) /\ ~Has(in, BS) /\ ~Has(in, BQ)) =>
        \A k \in 1..Len(ret.args) : ~Has(ret.args[k], LB)

(* the depth after byte k of a block opened at byte at, and where it is 0  *)
C6_Depth(x, at, k) ==
    1 + Cardinality({j \in (at + 1)..k : At(x, j) = LB})
      - Cardinality({j \in (at + 1)..k : At(x, j) = RB})

C6_Closes(x, at) == {k \in (at + 1)..(Len(x) - 1) : C6_Depth(x, at, k) = 0}

C6_Min(S) == CHOOSE k \in S : \A j \in S : k <= j

(* C6: brace nesting.  In a block without backslashes the depth is 1 plus  *)
(* the opening braces minus the closing braces read so far, the block      *)
(* closes at the first byte where that is 0, the cursor is left just past  *)
(* it, and a single-line body is exactly the bytes in between.             *)
C6_BraceNesting ==
    (Returned /\ ret.kind = "brace") =>
        LET K == C6_Closes(in, ret.at) IN
        IF K = {}
        THEN ~Has(SliceFrom(in, ret.at + 1), BS) => ret.err = ErrBrace
        ELSE LET k       == C6_Min(K)
                 content == Slice(in, ret.at + 1, k)
             IN  ~Has(content, BS) =>
                     /\ ret.err = NoErr
                     /\ pos = k + 1
                     /\ ~Has(content, NL) => ret.body = content

(* a block with a nested block inside and text after it *)
C6_Witness ==
    /\ Returned
    /\ ret.kind = "brace"
    /\ ret.err = NoErr
    /\ Len(ret.args) > 0
    /\ Has(ret.body, LB)
    /\ Has(ret.body, RB)
    /\ ~Has(in, BS)
    /\ pos < Len(in)

(* a brace block read byte by byte, an escape pair taken as one unit       *)
RECURSIVE C7_Walk(_, _, _, _)
C7_Walk(x, k, depth, out) ==
    IF k > Len(x) THEN [closed |-> FALSE, out |-> out, end |-> k]
    ELSE IF x[k] = BS
         THEN IF k + 1 > Len(x) THEN [closed |-> FALSE, out |-> out, end |-> k]
              ELSE IF x[k + 1] \in {LB, RB, BS}
                   THEN C7_Walk(x, k + 2, depth, Append(out, x[k + 1]))
                   ELSE C7_Walk(x, k + 2, depth, out \o <<BS, x[k + 1]>>)
    ELSE IF x[k] = LB THEN C7_Walk(x, k + 1, depth + 1, Append(out, LB))
    ELSE IF x[k] = RB
         THEN IF depth = 1 THEN [closed |-> TRUE, out |-> out, end |-> k]
              ELSE C7_Walk(x, k + 1, depth - 1, Append(out, RB))
    ELSE C7_Walk(x, k + 1, depth, Append(out, x[k]))

(* C7: in a brace block a backslash takes the next byte with it and leaves *)
(* the depth alone: \{ \} \\ give { } \, a backslash before any other byte *)
(* gives both bytes.                                                       *)
C7_BraceEscapes ==
    (Returned /\ ret.kind = "brace") =>
        LET w == C7_Walk(in, ret.at + 2, 1, <<>>) IN
        IF w.closed
        THEN /\ ret.err = NoErr
             /\ pos = w.end
             /\ ret.body = IF Has(w.out, NL) THEN dedent(w.out) ELSE w.out
        ELSE ret.err \in {ErrBrace, ErrSlash}

(* a block with \{ , \} and a backslash before another byte *)
C7_Witness ==
    /\ Returned
    /\ ret.kind = "brace"
    /\ ret.err = NoErr
    /\ \E k \in 1..(Len(in) - 1) : k > ret.at + 1 /\ k < pos /\ in[k] = BS /\ in[k + 1] = RB
    /\ \E k \in 1..(Len(ret.body) - 1) : ret.body[k] = BS /\ ret.body[k + 1] \notin {LB, RB, BS}
    /\ Has(ret.body, RB)

(* what an escaped byte stands for, and a double-quoted string or a        *)
(* bareword read byte by byte with it                                      *)
C8_Decoded(b) ==
    IF b = Ch_n THEN <<NL>>
    ELSE IF b = Ch_r THEN <<CR>>
    ELSE IF b = Ch_t THEN <<TAB>>
    ELSE IF b = NL THEN <<>>
    ELSE <<b>>

RECURSIVE C8_Quoted(_, _, _)
C8_Quoted(r, k, out) ==
    IF k > Len(r) THEN [ok |-> FALSE, out |-> out, end |-> k]
    ELSE IF r[k] = Q2 THEN [ok |-> TRUE, out |-> out, end |-> k]
    ELSE IF r[k] = BS
         THEN IF k + 1 > Len(r) THEN [ok |-> FALSE, out |-> out, end |-> k]
              ELSE C8_Quoted(r, k + 2, out \o C8_Decoded(r[k + 1]))
    ELSE C8_Quoted(r, k + 1, Append(out, r[k]))

RECURSIVE C8_Bare(_, _, _)
C8_Bare(r, k, out) ==
    IF k > Len(r) \/ r[k] \in {SP, TAB, NL} THEN [ok |-> TRUE, out |-> out, end |-> k]
    ELSE IF r[k] \in {Q1, Q2, LB, BQ} \/ r[k] < 32 THEN [ok |-> FALSE, out |-> out, end |-> k]
    ELSE IF r[k] = BS
         THEN IF k + 1 > Len(r) THEN [ok |-> FALSE, out |-> out, end |-> k]
              ELSE C8_Bare(r, k + 2, out \o C8_Decoded(r[k + 1]))
    ELSE C8_Bare(r, k + 1, Append(out, r[k]))

C8_Ends(r, k) == k = Len(r) \/ (k < Len(r) /\ r[k + 1] \in {SP, TAB, NL})

(* C8: in barewords and double-quoted strings a backslash takes exactly    *)
(* one byte with it and gives newline for n, carriage return for r, tab    *)
(* for t, the byte itself for \ " ' and any other byte, nothing for a      *)
(* newline; a double-quoted string ends at the first " no escape took.     *)
C8_FullEscapes ==
    (Returned /\ Rest # <<>>) =>
        /\ Rest[1] = Q2 =>
              LET q == C8_Quoted(Rest, 2, <<>>) IN
              (q.ok /\ C8_Ends(Rest, q.end)) => (ret.args # <<>> /\ ret.args[1] = q.out)
        /\ Rest[1] \notin {SP, TAB, NL} =>
              LET w == C8_Bare(Rest, 1, <<>>) IN
              w.ok => (ret.args # <<>> /\ ret.args[1] = w.out)

(* a double-quoted string with an escaped quote and an escaped n inside *)
C8_Witness ==
    /\ Returned
    /\ Rest # <<>>
    /\ Rest[1] = Q2
    /\ ret.err = NoErr
    /\ ret.args # <<>>
    /\ Has(ret.args[1], Q2)
    /\ Has(ret.args[1], NL)
    /\ ~Has(Rest, NL)

(* the input with every backslash-newline deleted, and the inputs that     *)
(* use a continuation inside a bareword or before indented arguments       *)
RECURSIVE C9_Joined(_)
C9_Joined(x) ==
    IF Len(x) = 0 THEN <<>>
    ELSE IF Len(x) >= 2 /\ x[1] = BS /\ x[2] = NL THEN C9_Joined(SubSeq(x, 3, Len(x)))
    ELSE <<x[1]>> \o C9_Joined(Tail(x))

C9_WordByte(b) == b > 32 /\ b \notin {Q1, Q2, BQ, LB, BS}

(* the byte after the run of spaces and tabs that starts at k is a word byte *)
RECURSIVE C9_IndentedWord(_, _)
C9_IndentedWord(x, k) ==
    IF k > Len(x) THEN FALSE
    ELSE IF x[k] \in {SP, TAB} THEN C9_IndentedWord(x, k + 1)
    ELSE C9_WordByte(x[k])

C9_Shape(x) ==
    /\ Has(x, BS)
    /\ C4_Plain(C9_Joined(x))
    /\ \A k \in 1..Len(x) : x[k] = BS =>
          /\ k > 1 /\ k < Len(x) /\ x[k + 1] = NL
          /\ \/ C9_WordByte(x[k - 1])
             \/ /\ x[k - 1] \in {SP, TAB}
                /\ k + 2 <= Len(x) /\ x[k + 2] \in {SP, TAB}
                /\ C9_IndentedWord(x, k + 2)
                /\ \E j \in 1..(k - 1) : C9_WordByte(x[j])

(* C9: a backslash directly before a newline contributes nothing and does  *)
(* not end the command: the arguments after it belong to the same command  *)
(* as those before it and no argument is added, inside a bareword and      *)
(* after whitespace with indented arguments on the next line.  The         *)
(* commands are those of the input with every backslash-newline deleted.   *)
C9_LineContinuation ==
    (Returned /\ eofs >= 1 /\ C9_Shape(in)) =>
        SelectSeq(hist, LAMBDA h : h.err # ErrEOF) = C4_Commands(C9_Joined(in))

(* the next occurrence of a delimiter *)
C10_NextAt(r, d) == C6_Min({k \in 2..Len(r) : r[k] = d})

(* C10: single-quoted and backtick strings are literal: the content is the *)
(* bytes from the opening delimiter to its next occurrence, backslashes    *)
(* and newlines included.                                                  *)
C10_LiteralQuotes ==
    (Returned /\ Rest # <<>>) =>
        /\ (Rest[1] = BQ /\ \E k \in 2..Len(Rest) : Rest[k] = BQ) =>
              /\ ret.args # <<>>
              /\ ret.args[1] = SubSeq(Rest, 2, C10_NextAt(Rest, BQ) - 1)
        /\ (Rest[1] = Q1 /\ \E k \in 2..Len(Rest) : Rest[k] = Q1) =>
              LET j == C10_NextAt(Rest, Q1) IN
              C8_Ends(Rest, j) => (ret.args # <<>> /\ ret.args[1] = SubSeq(Rest, 2, j - 1))

(* a quoted string that holds a newline and ends in a backslash *)
C10_Witness ==
    /\ Returned
    /\ Rest # <<>>
    /\ Rest[1] \in {Q1, BQ}
    /\ ret.err = NoErr
    /\ ret.args # <<>>
    /\ Len(ret.args[1]) >= 2
    /\ Has(ret.args[1], NL)
    /\ ret.args[1][Len(ret.args[1])] = BS

(* an argument read segment by segment: bareword bytes, single-quoted      *)
(* segments, double-quoted segments and escapes, up to the next space, tab *)
(* or newline                                                              *)
RECURSIVE C11_Segments(_, _, _)
C11_Segments(r, k, acc) ==
    IF k > Len(r) \/ r[k] \in {SP, TAB, NL} THEN [ok |-> TRUE, out |-> acc]
    ELSE IF r[k] = Q1
         THEN IF \E j \in (k + 1)..Len(r) : r[j] = Q1
              THEN LET j == C6_Min({m \in (k + 1)..Len(r) : r[m] = Q1})
                   IN  C11_Segments(r, j + 1, acc \o SubSeq(r, k + 1, j - 1))
              ELSE [ok |-> FALSE, out |-> acc]
    ELSE IF r[k] = Q2
         THEN LET q == C8_Quoted(r, k + 1, <<>>)
              IN  IF q.ok THEN C11_Segments(r, q.end + 1, acc \o q.out)
                  ELSE [ok |-> FALSE, out |-> acc]
    ELSE IF r[k] = BS
         THEN IF k + 1 > Len(r) THEN [ok |-> FALSE, out |-> acc]
              ELSE C11_Segments(r, k + 2, acc \o C8_Decoded(r[k + 1]))
    ELSE IF r[k] \in {LB, BQ} \/ r[k] < 32 THEN [ok |-> FALSE, out |-> acc]
    ELSE C11_Segments(r, k + 1, Append(acc, r[k]))

(* C11: mixed quoting.  Bareword runs, single-quoted segments,             *)
(* double-quoted segments and backslash escapes with no space, tab or      *)
(* newline between them form one argument, the concatenation of their      *)
(* decoded contents in source order; an empty quoted string alone gives    *)
(* the empty argument.                                                     *)
C11_MixedQuoting ==
    (Returned /\ Rest # <<>> /\ Rest[1] \notin {SP, TAB, NL}) =>
        LET w == C11_Segments(Rest, 1, <<>>) IN
        w.ok => (ret.args # <<>> /\ ret.args[1] = w.out)

(* a double-quoted segment, a bareword byte and a single-quoted segment    *)
(* with a space inside, read as one argument                               *)
C11_Witness ==
    /\ Returned
    /\ ret.err = NoErr
    /\ Len(ret.args) = 1
    /\ Rest[1] = Q2
    /\ Has(Rest, Q1)
    /\ Has(ret.args[1], 61)
    /\ Has(ret.args[1], SP)
    /\ ~Has(ret.args[1], Q1)
    /\ ~Has(ret.args[1], Q2)

(* an empty quoted string alone, read as the empty argument *)
C11_WitnessEmpty ==
    /\ Returned
    /\ ret.err = NoErr
    /\ Rest \in {<<Q1, Q1>>, <<Q2, Q2>>}
    /\ ret.args = << <<>> >>

(* the index of the last newline among the first n bytes, 0 if there is none *)
C12_LastNewline(x, n) ==
    LET S == {k \in 1..n : x[k] = NL}
    IN  IF S = {} THEN 0 ELSE CHOOSE k \in S : \A j \in S : j <= k

(* C12: error positions are exact.  Every ScanError that Next of a root    *)
(* scanner returns carries Offset equal to the number of bytes consumed,   *)
(* Line equal to 1 plus the newlines consumed and Column equal to 1 plus   *)
(* the bytes consumed since the last newline, and that is the end of the   *)
(* input.                                                                  *)
C12_ExactErrorPositions ==
    (Returned /\ isScanError(ret.err) /\ parent = NoParent) =>
        /\ ret.epos.Offset = pos
        /\ ret.epos.Line = 1 + Cardinality({k \in 1..pos : in[k] = NL})
        /\ ret.epos.Column = 1 + pos - C12_LastNewline(in, pos)
        /\ pos = Len(in)

(* 'unclosed fails at line 1, column 10, offset 9 *)
C12_Witness ==
    /\ Returned
    /\ in = <<39, 117, 110, 99, 108, 111, 115, 101, 100>>
    /\ ret.err = ErrQuote1
    /\ ret.epos = [Line |-> 1, Column |-> 10, Offset |-> 9]

(* an error on the second line, after an argument *)
C12_WitnessSecondLine ==
    /\ Returned
    /\ isScanError(ret.err)
    /\ ret.args # <<>>
    /\ ret.epos = [Line |-> 2, Column |-> 2, Offset |-> 8]

(* the error that a command cut short by the end of input has to give,     *)
(* "none" if the command is complete: an opening brace and a backtick      *)
(* start their construct wherever they stand unquoted and unescaped        *)
RECURSIVE C13_Expect(_, _, _)
C13_Expect(r, k, seen) ==
    IF k > Len(r) THEN "none"
    ELSE IF r[k] \in {SP, TAB} THEN C13_Expect(r, k + 1, seen)
    ELSE IF r[k] = NL THEN (IF seen THEN "none" ELSE C13_Expect(r, k + 1, seen))
    ELSE IF r[k] = LB
         THEN LET w == C7_Walk(r, k + 1, 1, <<>>)
              IN  IF w.closed THEN "none"
                  ELSE IF w.end <= Len(r) THEN ErrSlash ELSE ErrBrace
    ELSE IF r[k] = BQ
         THEN IF \E j \in (k + 1)..Len(r) : r[j] = BQ
              THEN C13_Expect(r, C6_Min({m \in (k + 1)..Len(r) : r[m] = BQ}) + 1, TRUE)
              ELSE ErrBack
    ELSE IF r[k] = Q1
         THEN IF \E j \in (k + 1)..Len(r) : r[j] = Q1
              THEN C13_Expect(r, C6_Min({m \in (k + 1)..Len(r) : r[m] = Q1}) + 1, TRUE)
              ELSE ErrQuote1
    ELSE IF r[k] = Q2
         THEN LET q == C8_Quoted(r, k + 1, <<>>)
              IN  IF q.ok THEN C13_Expect(r, q.end + 1, TRUE)
                  ELSE IF q.end <= Len(r) THEN ErrSlash ELSE ErrQuote2
    ELSE IF r[k] = BS
         THEN IF k + 1 > Len(r) THEN ErrSlash
              ELSE C13_Expect(r, k + 2, IF r[k + 1] = NL THEN seen ELSE TRUE)
    ELSE C13_Expect(r, k + 1, TRUE)

(* C13: Next never returns a command that the end of input cut short: if   *)
(* the input ends inside a single-quoted, double-quoted or backtick string *)
(* or inside a brace block, Next returns the ScanError of that kind, and   *)
(* "EOF after backslash" if it ends right after an escape backslash.       *)
C13_NoTruncatedCommand ==
    Returned =>
        LET e == C13_Expect(Rest, 1, FALSE) IN
        e # "none" => ret.err = e

(* C15: an absent body is distinct from an empty body: what Next returns   *)
(* for a command with an empty block differs from what it returns for the  *)
(* same command with no block.                                             *)
C15_EmptyBodyIsPresent ==
    (Returned /\ ret.kind = "brace" /\ ret.err = NoErr /\ ret.args # <<>>) =>
        hist[Len(hist)] # [args |-> ret.args, body |-> <<>>, err |-> NoErr]

(* the position that byte k (0-based) of a root scanner's text has *)
C14_PosIn(x, k) ==
    [Line   |-> 1 + Cardinality({j \in 1..k : x[j] = NL}),
     Offset |-> k]

(* the body is a verbatim piece of the parent's text, so that byte k of    *)
(* the body is byte parent.at + 1 + k of the parent's text                 *)
C14_Verbatim ==
    /\ Len(in) > 0
    /\ parent.at + 1 + Len(in) <= Len(parent.s)
    /\ in = Slice(parent.s, parent.at + 1, parent.at + 1 + Len(in))

(* C14: re-rooting keeps positions consistent with the parent text.  The   *)
(* initial position of a child made by NewFromScanner right after the      *)
(* parent returned the body, and the position of every ScanError of the    *)
(* child, have the line and the offset of the same byte in the parent's    *)
(* text.                                                                   *)
C14_RerootedPositions ==
    (parent.depth = 1 /\ parent.baseOffset = 0 /\ C14_Verbatim) =>
        /\ (pc = "idle" /\ hist = <<>>) =>
              LET p == currentPos(cur, baseOffset)
                  q == C14_PosIn(parent.s, parent.at + 1)
              IN  p.Line = q.Line /\ p.Offset = q.Offset
        /\ (Returned /\ isScanError(ret.err)) =>
              LET q == C14_PosIn(parent.s, parent.at + 1 + pos)
              IN  ret.epos.Line = q.Line /\ ret.epos.Offset = q.Offset

(* an argument as Format renders it when it stands alone *)
C16_Rendered(a) == Format(<<a>>, <<>>)

(* C16: Format output shape.  Format(A, B) is the rendered arguments of A  *)
(* in order, one space between two of them, followed exactly when B is not *)
(* empty by " {\n" + B + "\n}" with B as it is; for empty A and non-empty  *)
(* B the output starts with " {".                                          *)
C16_FormatShape ==
    (pc # "fmt" /\ in = Format(fArgs, fBody)) =>
        LET rendered == [k \in 1..Len(fArgs) |-> C16_Rendered(fArgs[k])]
            head     == Join(rendered, <<SP>>)
        IN  /\ fBody # <<>> => in = head \o <<SP, LB, NL>> \o fBody \o <<NL, RB>>
            /\ fBody = <<>> => in = head
            /\ (fArgs = <<>> /\ fBody # <<>>) => SubSeq(in, 1, 2) = <<SP, LB>>

(* two arguments, one of them quoted, and a body that holds a closing      *)
(* brace                                                                   *)
C16_Witness ==
    /\ pc = "idle"
    /\ hist = <<>>
    /\ in = Format(fArgs, fBody)
    /\ Len(fArgs) = 2
    /\ fArgs[1] = <<Ch_n>>
    /\ fArgs[2] = <<SP>>
    /\ Has(fBody, RB)

(* the body with the indent put before every line; the empty body has no  *)
(* line                                                                    *)
C17_Indented(b, ind) ==
    IF b = <<>> THEN <<>>
    ELSE LET ls == Split(b) IN Join([k \in 1..Len(ls) |-> ind \o ls[k]], <<NL>>)

(* C17: FormatIndent(A, B, I) equals Format(A, B') where B' is B with I    *)
(* before every one of its lines, empty lines included; with the empty     *)
(* indent it equals Format(A, B), and for empty B the indent has no        *)
(* effect.                                                                 *)
C17_IndentIsFormatOfIndented ==
    pc = "formatted" =>
        /\ fOut = Format(fArgs, C17_Indented(fBody, fIndent))
        /\ fIndent = <<>> => fOut = Format(fArgs, fBody)
        /\ fBody = <<>> => fOut = Format(fArgs, <<>>)

(* a body with an empty line in the middle, formatted with an indent *)
C17_Witness ==
    /\ pc = "formatted"
    /\ fIndent # <<>>
    /\ fArgs # <<>>
    /\ \E k \in 1..(Len(fBody) - 1) : fBody[k] = NL /\ fBody[k + 1] = NL
    /\ fBody[1] # NL

(* C18: dedent is idempotent: dedent(dedent(s)) = dedent(s).               *)
C18_DedentIdempotent ==
    [][(pc = "dedent1" /\ pc' = "dedent2") => fOut' = fOut]_vars

(* dedent applied twice to an input that the first application changed and *)
(* whose result still has an indented line                                 *)
C18_Witness ==
    /\ pc = "dedent2"
    /\ fOut # fBody
    /\ \E k \in 1..(Len(fOut) - 1) : fOut[k] = NL /\ fOut[k + 1] \in {SP, TAB}

(* the white-space characters a line can hold, as UTF-8: tab, vertical     *)
(* tab, form feed, carriage return, space, U+0085, U+00A0, U+1680,         *)
(* U+2000..U+200A, U+2028, U+2029, U+202F, U+205F and U+3000               *)
C19_Spaces ==
    { <<TAB>>, <<11>>, <<12>>, <<CR>>, <<SP>>, <<194, 133>>, <<194, 160>>,
      <<225, 154, 128>>, <<226, 128, 168>>, <<226, 128, 169>>, <<226, 128, 175>>,
      <<226, 129, 159>>, <<227, 128, 128>> }
    \cup { <<226, 128, b>> : b \in 128..138 }

(* a line that is empty or holds only white-space characters *)
RECURSIVE C19_Blank(_)
C19_Blank(l) ==
    \/ l = <<>>
    \/ \E n \in 1..3 :
          /\ n <= Len(l)
          /\ SubSeq(l, 1, n) \in C19_Spaces
          /\ C19_Blank(SubSeq(l, n + 1, Len(l)))

(* C19: dedent never changes blank lines and never changes single-line     *)
(* input: the result has as many lines as the input, every empty or        *)
(* whitespace-only line is the same at the same index, and an input        *)
(* without a newline is returned as it is.                                 *)
C19_BlankLinesKept ==
    pc = "dedent1" =>
        LET a == Split(fBody)
            b == Split(fOut)
        IN  /\ Len(b) = Len(a)
            /\ \A k \in 1..Len(a) : C19_Blank(a[k]) => b[k] = a[k]
            /\ ~Has(fBody, NL) => fOut = fBody

(* an input that dedent changed and that has a whitespace-only line *)
C19_Witness ==
    /\ pc = "dedent1"
    /\ fOut # fBody
    /\ \E k \in 1..Len(Split(fBody)) :
          Split(fBody)[k] # <<>> /\ C19_Blank(Split(fBody)[k])

(* the length of the leading run of spaces and tabs of a line *)
C20_Run(l) ==
    LET S == {n \in 0..Len(l) : \A k \in 1..n : l[k] \in {SP, TAB}}
    IN  CHOOSE n \in S : \A m \in S : m <= n

(* the length of the longest common prefix of the runs of the lines ls *)
C20_Common(ls) ==
    LET S == {n \in 0..C20_Run(ls[1]) :
                \A k \in 1..Len(ls) :
                    n <= C20_Run(ls[k]) /\ SubSeq(ls[k], 1, n) = SubSeq(ls[1], 1, n)}
    IN  CHOOSE n \in S : \A m \in S : m <= n

(* C20: dedent result.  For a multi-line s let P be the longest common     *)
(* prefix of the leading space/tab runs of the non-blank lines.  If P is   *)
(* not empty, each non-blank line of dedent(s) is the line of s without    *)
(* its first len(P) bytes, and the runs of the result have no common       *)
(* prefix left; if P is empty, dedent(s) = s.                              *)
C20_DedentResult ==
    (pc = "dedent1" /\ Has(fBody, NL)) =>
        LET a  == Split(fBody)
            b  == Split(fOut)
            nb == SelectSeq(a, LAMBDA l : ~C19_Blank(l))
        IN  IF nb = <<>> THEN fOut = fBody
            ELSE LET n == C20_Common(nb) IN
                 IF n = 0 THEN fOut = fBody
                 ELSE /\ Len(b) = Len(a)
                      /\ \A k \in 1..Len(a) :
                            ~C19_Blank(a[k]) => b[k] = SubSeq(a[k], n + 1, Len(a[k]))
                      /\ C20_Common(SelectSeq(b, LAMBDA l : ~C19_Blank(l))) = 0

(* two lines with runs of different length: part of the longer run stays *)
C20_Witness ==
    /\ pc = "dedent1"
    /\ fOut # fBody
    /\ Has(fBody, NL)
    /\ fOut[1] \in {SP, TAB}
    /\ ~C19_Blank(Split(fOut)[1])

(* the leading space/tab run of a line, and whether all lines have the     *)
(* same one                                                                *)
C21_RunOf(l) == SubSeq(l, 1, C20_Run(l))

C21_SameRuns(ls) ==
    \A j \in 1..Len(ls) : \A k \in 1..Len(ls) : C21_RunOf(ls[j]) = C21_RunOf(ls[k])

(* whether every line of ls starts with the same space or tab *)
C21_SameFirst(ls) ==
    /\ \A k \in 1..Len(ls) : Len(ls[k]) > 0 /\ ls[k][1] \in {SP, TAB}
    /\ \A j \in 1..Len(ls) : \A k \in 1..Len(ls) : ls[j][1] = ls[k][1]

(* C21: dedent is conservative about the first column only: if the runs    *)
(* of the non-blank lines of s have no common first character (two runs    *)
(* start with different characters, or a non-blank line is not indented),  *)
(* dedent returns s unchanged; if they have one and s has several lines,   *)
(* dedent changes s even when the runs differ further on, and each         *)
(* non-blank line loses the same number of leading bytes.                  *)
C21_DedentConservativeFirstColumn ==
    pc = "dedent1" =>
        LET a  == Split(fBody)
            b  == Split(fOut)
            nb == SelectSeq(a, LAMBDA l : ~C19_Blank(l))
        IN  /\ (nb # <<>> /\ ~C21_SameFirst(nb)) => fOut = fBody
            /\ (nb # <<>> /\ C21_SameFirst(nb) /\ Has(fBody, NL)) =>
                   /\ fOut # fBody
                   /\ Len(b) = Len(a)
                   /\ \E n \in 1..Len(fBody) : \A k \in 1..Len(a) :
                          ~C19_Blank(a[k]) => Len(b[k]) = Len(a[k]) - n

(* two non-blank lines whose runs differ after a common first character,   *)
(* dedented                                                                *)
C21_Witness ==
    /\ pc = "dedent1"
    /\ fOut # fBody
    /\ LET nb == SelectSeq(Split(fBody), LAMBDA l : ~C19_Blank(l)) IN
           nb # <<>> /\ C21_SameFirst(nb) /\ ~C21_SameRuns(nb)

(* C21 as stated: if the non-blank lines of s do not all have the same     *)
(* leading whitespace run, in depth or in characters, dedent returns s     *)
(* unchanged.                                                              *)
C21_DedentConservative ==
    pc = "dedent1" =>
        LET nb == SelectSeq(Split(fBody), LAMBDA l : ~C19_Blank(l)) IN
        (nb # <<>> /\ ~C21_SameRuns(nb)) => fOut = fBody

(* the classes of a byte *)
C22_Classes(b) ==
    {c \in {"whitespace", "quote1", "quote2", "backtick", "left-brace", "newline",
            "bareword"} :
        \/ c = "whitespace" /\ isSpace(b)
        \/ c = "quote1"     /\ isQuote1(b)
        \/ c = "quote2"     /\ isQuote2(b)
        \/ c = "backtick"   /\ isBackQuote(b)
        \/ c = "left-brace" /\ isLeftBrace(b)
        \/ c = "newline"    /\ isNewLine(b)
        \/ c = "bareword"   /\ isBareword(b)}

(* C22: byte classification is total and exclusive: every byte that Next   *)
(* inspects at the top level is in exactly one of the classes whitespace,  *)
(* single quote, double quote, backtick, left brace, newline and           *)
(* bareword-eligible, and matches one of the cases of Next's switch.       *)
C22_ClassificationTotal ==
    (pc = "loop" /\ pos < Len(in)) =>
        /\ Cardinality(C22_Classes(At(in, pos))) = 1
        /\ NextCase(At(in, pos)) # "none"

(* the line a scanner starts at: 1, or for a re-rooted scanner the line    *)
(* its parent was at                                                       *)
C23_StartLine == IF parent.depth = 0 THEN 1 ELSE parent.line

(* the number of newline bytes among the first n bytes of x *)
C23_Newlines(x, n) == Cardinality({k \in 1..n : x[k] = NL})

C23_PositionState ==
    /\ 0 <= pos
    /\ pos <= Len(in)
    /\ line = C23_StartLine + C23_Newlines(in, pos)
    /\ column = 1 + (pos - C12_LastNewline(in, pos))

(* a step of one scanner does not move the cursor back *)
C23_Grows == (parent' = parent) => pos' >= pos

(* C23: position invariant.  In every state reachable by calls of Next on  *)
(* a scanner over s, 0 <= pos <= len(s), the offset only ever grows, line  *)
(* is the starting line plus the number of newline bytes in s[0:pos], and  *)
(* column is 1 plus the number of bytes of s[0:pos] after the last         *)
(* newline.                                                                *)
C23_PositionInvariant == [](C23_PositionState) /\ [][C23_Grows]_vars

(* a re-rooted scanner that started after line 1, has consumed a newline   *)
(* and stands inside a line                                                *)
C23_Witness ==
    /\ parent.depth = 1
    /\ parent.line > 1
    /\ line > parent.line
    /\ column > 1
    /\ pos = Len(in)

(* the return of a ScanError: the cursor is at the end of the input and    *)
(* the arguments returned are the ones completed before the failing token  *)
C24_ErrorStep ==
    (pc = "loop" /\ pc' = "idle" /\ isScanError(ret'.err)) =>
        /\ pos' = Len(in)
        /\ ret'.args = args
        /\ hist'[Len(hist')].args = args

(* after a ScanError the cursor stays at the end and every later call      *)
(* returns io.EOF without arguments or body                                *)
C24_AfterError ==
    \A i \in 1..Len(hist) : isScanError(hist[i].err) =>
        /\ pos = Len(in)
        /\ \A j \in (i + 1)..Len(hist) :
              hist[j] = [args |-> <<>>, body |-> <<>>, err |-> ErrEOF]

(* C24: every ScanError leaves the cursor at the end of the input, not     *)
(* rewound: when Next returns a ScanError, pos = len(input), the arguments *)
(* completed before the failing token are returned with the error, and     *)
(* every further call of Next on the same scanner returns the              *)
(* end-of-input signal, never a command.                                   *)
C24_ErrorsAreTerminal == [](C24_AfterError) /\ [][C24_ErrorStep]_vars

(* a ScanError returned with a completed argument, then io.EOF *)
C24_Witness ==
    /\ Returned
    /\ Len(hist) = 2
    /\ isScanError(hist[1].err)
    /\ Len(hist[1].args) > 0
    /\ hist[2].err = ErrEOF
    /\ pos = Len(in)

(* C25: argument quoting is the inverse of the scanner's full escape       *)
(* decoder.  Format writes an argument verbatim only if it is non-empty    *)
(* and made of bareword bytes other than the backslash; every other        *)
(* argument, the empty one included, is written in double quotes with      *)
(* escapes that parseQuote2 and parseBackslashEscape decode back to the    *)
(* original bytes, so the text of one formatted argument parses as         *)
(* exactly one argument equal to the original.                             *)
C25_QuotingInvertsDecoder ==
    (Returned /\ Len(hist) = 1 /\ Len(fArgs) = 1 /\ fBody = <<>>
              /\ in = Format(fArgs, fBody)) =>
        /\ (in = fArgs[1]) =>
               (fArgs[1] # <<>> /\ \A k \in 1..Len(fArgs[1]) :
                    isBareword(fArgs[1][k]) /\ fArgs[1][k] # BS)
        /\ (in # fArgs[1]) => (in[1] = Q2 /\ in[Len(in)] = Q2)
        /\ ret.err = NoErr
        /\ ret.args = fArgs
        /\ pos = Len(in)

============================================================================
